---- MODULE Spec2Model ----
(***************************************************************************)
(* State-machine model of backtrader_ib_api's blocking request wrappers.   *)
(*                                                                         *)
(* Part W models wrapper/wrapper.py (RequestWrapper with a table of        *)
(* pending Response objects, wrapper/responses.py).                        *)
(*                                                                         *)
(* Caller threads run the public methods step by step (every read and      *)
(* write of shared state is a step of its own), the transport (ibapi's     *)
(* EClient and its receive thread, which is not part of the repository)    *)
(* invokes the EWrapper callbacks with any identifier and any kind.        *)
(***************************************************************************)
EXTENDS Integers, Sequences, FiniteSets, TLC

(***************************************************************************)
(* Bounds of the model.                                                    *)
(***************************************************************************)
\* connection attempts (calls of start_app)
MaxConn == 2
\* callbacks dispatched to a Response in one run
MaxEvents == 2
\* Response objects created in one run (request method calls)
MaxReq == 2
\* request_wrapper: connections, requests, and items waiting on queues
MaxQConn == 2
MaxQReq == 2
MaxQueued == 1
MaxRowEvents == 3
MaxQEvents == 2
MaxContracts == 2

\* the caller threads; Owner is the one that also connects and disconnects
Threads == {"t1", "t2"}
Owner == "t1"

\* timeout=None and a finite timeout (wrapper.py:47)
Timeouts == {"None", "finite"}

\* no object / no connection (Python's None for _app, thread)
NoObj == 0

(***************************************************************************)
(* wrapper/responses.py: the Response classes.                             *)
(***************************************************************************)
Classes ==
    {"StockDetailsResponse", "OptionParamsResponse", "OptionDetailsResponse",
     "HistoricalTradesResponse", "HistoricalDataResponse",
     "HistoricalBidAskResponse"}

row_callback(cls) ==
    CASE cls \in {"StockDetailsResponse", "OptionDetailsResponse"}
            -> "contractDetails"
      [] cls = "OptionParamsResponse"
            -> "securityDefinitionOptionParameter"
      [] OTHER -> "historicalData"

end_callback(cls) ==
    CASE cls \in {"StockDetailsResponse", "OptionDetailsResponse"}
            -> "contractDetailsEnd"
      [] cls = "OptionParamsResponse"
            -> "securityDefinitionOptionParameterEnd"
      [] OTHER -> "historicalDataEnd"

\* len(columns) of each class
NumColumns(cls) ==
    CASE cls = "StockDetailsResponse" -> 9
      [] cls = "OptionParamsResponse" -> 4
      [] cls = "OptionDetailsResponse" -> 6
      [] cls = "HistoricalTradesResponse" -> 8
      [] cls = "HistoricalDataResponse" -> 6
      [] OTHER -> 4

\* parse_data raises: HistoricalTradesResponse reads getattr(bar, "datetime"),
\* an attribute BarData does not have (its first column is "datetime").
ParseRaises(cls) == cls = "HistoricalTradesResponse"

\* number of values parse_data returns; HistoricalDataResponse and
\* HistoricalBidAskResponse inherit Response.parse_data, list(args), and
\* historicalData passes one argument, the bar.
ParseWidth(cls) ==
    CASE cls = "StockDetailsResponse" -> 9
      [] cls = "OptionParamsResponse" -> 4
      [] cls = "OptionDetailsResponse" -> 6
      [] cls = "HistoricalTradesResponse" -> 9
      [] OTHER -> 1

\* the row callback raises instead of adding a row: parse_data raised, or
\* DataFrame.loc refuses a row whose length is not the number of columns
RowRaises(cls) == ParseRaises(cls) \/ ParseWidth(cls) # NumColumns(cls)

\* what a callback is to a Response of class cls (for the history variable)
EventKind(cls, callback) ==
    IF callback = row_callback(cls) THEN "row"
    ELSE IF callback = end_callback(cls) THEN "end"
    ELSE IF callback = "error" THEN "error"
    ELSE "other"

\* the columns of each class
columns(cls) ==
    CASE cls = "StockDetailsResponse" ->
            <<"ticker", "exchange", "long_name", "industry", "category",
              "sub_category", "time_zone_id", "trading_hours",
              "liquid_hours">>
      [] cls = "OptionParamsResponse" ->
            <<"exchange", "multiplier", "expirations", "strikes">>
      [] cls = "OptionDetailsResponse" ->
            <<"option_ticker", "exchange", "expiration", "strike", "right",
              "multiplier">>
      [] cls = "HistoricalTradesResponse" ->
            <<"datetime", "open", "high", "low", "close", "volume", "count",
              "average">>
      [] cls = "HistoricalDataResponse" ->
            <<"open", "high", "low", "close", "count", "average">>
      [] OTHER -> <<"average_bid", "max_ask", "min_bid", "average_ask">>

\* a parse_data that skips the first argument
parse_data_tail(cls, args) == Tail(args)

\* parse_data: the values made of the arguments of the row callback.
\* contractDetails passes a ContractDetails, historicalData a BarData,
\* securityDefinitionOptionParameter passes exchange, underlyingConId,
\* tradingClass, multiplier, expirations, strikes. The classes without a
\* parse_data of their own return list(args); HistoricalTradesResponse
\* raises (ParseRaises).
parse_data(cls, args) ==
    CASE cls = "StockDetailsResponse" ->
            <<args[1].contract.symbol, args[1].contract.exchange,
              args[1].longName, args[1].industry, args[1].category,
              args[1].subcategory, args[1].timeZoneId, args[1].tradingHours,
              args[1].liquidHours>>
      [] cls = "OptionParamsResponse" ->
            <<args[1], args[4], args[5], args[6]>>
      [] cls = "OptionDetailsResponse" ->
            <<args[1].contract.localSymbol, args[1].contract.exchange,
              args[1].contract.lastTradeDateOrContractMonth,
              args[1].contract.strike, args[1].contract.right,
              args[1].contract.multiplier>>
      [] cls = "HistoricalTradesResponse" -> <<"AttributeError">>
      [] OTHER -> args

\* DataFrame.loc[index] = row: the row of that index is replaced, a new
\* index is appended
loc_set(table, index, row) ==
    IF \E i \in 1 .. Len(table) : table[i].index = index
    THEN [i \in 1 .. Len(table) |->
              IF table[i].index = index THEN row ELSE table[i]]
    ELSE Append(table, row)

\* a handle_response that writes every row at index 0
add_row_zero(r, row) ==
    loc_set(r.table, 0,
            [index |-> 0, rid |-> row.rid,
             data |-> parse_data(r.cls, row.args)])

\* handle_response, lines 35-36: data = parse_data(*args), then
\* _response_table.loc[len(_response_table.index)] = data. The row keeps,
\* as history, the identifier its event came with.
add_row(r, row) ==
    loc_set(r.table, Len(r.table),
            [index |-> Len(r.table), rid |-> row.rid,
             data |-> parse_data(r.cls, row.args)])

\* history of a Response: the kind of every callback it handled (log) and
\* the row events among them, in the order handle_response was called
\* with them (events)
delivered(r, callback, row) ==
    [r EXCEPT !.log = Append(@, EventKind(r.cls, callback)),
              !.events = IF callback = row_callback(r.cls)
                         THEN Append(@, row) ELSE @]

\* Response.__init__; key, conn, over and log are history variables: the
\* identifier the object was registered under by _start_request, the
\* connection self._app held then, the object the table held under that
\* identifier before, and the kinds of the callbacks the object handled
\* with its row events;
\* right and bar_size are the arguments the request method was called with
\* ("" where the method has none) and sent is whether it called the
\* transport (self._app.req...) for this request
NewResponse(cls) ==
    [cls |-> cls, finished |-> FALSE, table |-> <<>>,
     key |-> -1, conn |-> NoObj, over |-> NoObj, log |-> <<>>,
     events |-> <<>>, right |-> "", bar_size |-> "", sent |-> FALSE]

\* a handle_response whose end callback does not set finished
handle_response_noend(r, callback, row) ==
    LET logged == delivered(r, callback, row)
    IN  IF callback = row_callback(r.cls)
        THEN IF RowRaises(r.cls) THEN logged
             ELSE [logged EXCEPT !.table = add_row(r, row)]
        ELSE IF callback = end_callback(r.cls)
        THEN logged
        ELSE [logged EXCEPT !.finished = TRUE]

\* a handle_response whose end callback clears a signal that is set
handle_response_toggle(r, callback, row) ==
    LET logged == delivered(r, callback, row)
    IN  IF callback = row_callback(r.cls)
        THEN IF RowRaises(r.cls) THEN logged
             ELSE [logged EXCEPT !.table = add_row(r, row)]
        ELSE IF callback = end_callback(r.cls)
        THEN [logged EXCEPT !.finished = ~ r.finished]
        ELSE [logged EXCEPT !.finished = TRUE]

\* a handle_response that empties the table on an unexpected callback
handle_response_clearing(r, callback, row) ==
    LET logged == delivered(r, callback, row)
    IN  IF callback = row_callback(r.cls)
        THEN IF RowRaises(r.cls) THEN logged
             ELSE [logged EXCEPT !.table = add_row(r, row)]
        ELSE IF callback = end_callback(r.cls)
        THEN [logged EXCEPT !.finished = TRUE]
        ELSE [logged EXCEPT !.finished = TRUE, !.table = <<>>]

\* Response.handle_response; row is the event: the identifier it came with
\* (rid) and the arguments of the callback (args)
handle_response(r, callback, row) ==
    LET logged == delivered(r, callback, row)
    IN  IF callback = row_callback(r.cls)
        THEN IF RowRaises(r.cls) THEN logged
             ELSE [logged EXCEPT !.table = add_row(r, row)]
        ELSE IF callback = end_callback(r.cls)
        THEN [logged EXCEPT !.finished = TRUE]
        ELSE [logged EXCEPT !.finished = TRUE]

(***************************************************************************)
(* wrapper/wrapper.py: RequestWrapper.                                     *)
(***************************************************************************)
AllMethods ==
    {"request_stock_details", "request_option_params", "request_option_chain",
     "request_stock_trades_history", "request_stock_iv_history",
     "request_stock_hv_history", "request_option_trades_history",
     "request_option_bidask_history"}

\* the request methods the caller threads of the model call: one whose rows
\* are stored and that validates nothing, one whose rows raise and that
\* validates both right and bar_size
Methods == {"request_stock_details", "request_option_trades_history"}

\* the Response class each request method creates
ResponseClass(m) ==
    CASE m = "request_stock_details" -> "StockDetailsResponse"
      [] m = "request_option_params" -> "OptionParamsResponse"
      [] m = "request_option_chain" -> "OptionDetailsResponse"
      [] m \in {"request_stock_trades_history", "request_option_trades_history"}
            -> "HistoricalTradesResponse"
      [] m \in {"request_stock_iv_history", "request_stock_hv_history"}
            -> "HistoricalDataResponse"
      [] OTHER -> "HistoricalBidAskResponse"

\* methods that build their contract with _get_option_contract
OptionHistoryMethods ==
    {"request_option_trades_history", "request_option_bidask_history"}

\* methods that send through _request_historical
HistoryMethods ==
    {"request_stock_trades_history", "request_stock_iv_history",
     "request_stock_hv_history"} \cup OptionHistoryMethods

\* inputs of the validated parameters: one valid and one invalid value each
Rights == {"C", "X"}
BarSizes == {"30 mins", "7 mins"}

REQUEST_OPTIONS_BAR_SIZE ==
    {"1 sec", "5 secs", "15 secs", "30 secs", "1 min", "2 mins", "3 mins",
     "5 mins", "15 mins", "30 mins", "1 hour", "1 day"}

\* a _get_option_contract that accepts every right
InvalidRight_never(right) == FALSE

\* _get_option_contract raises ValueError
InvalidRight(right) == right \notin {"C", "P"}

\* _request_historical raises ValueError (the data type is always one of
\* REQUEST_OPTIONS_HISTORICAL_TYPE: the methods pass literals)
InvalidBarSize(bar_size) == bar_size \notin REQUEST_OPTIONS_BAR_SIZE

\* the callbacks of EWrapper that RequestWrapper overrides with an identifier
Callbacks ==
    {"contractDetails", "contractDetailsEnd",
     "securityDefinitionOptionParameter",
     "securityDefinitionOptionParameterEnd",
     "historicalData", "historicalDataEnd"}

\* the exchanges a securityDefinitionOptionParameter row may name
Exchanges == {"SMART", "NYSE"}

\* a ContractDetails and a BarData as the transport passes them
SomeContractDetails ==
    [contract |-> [conId |-> 1, symbol |-> "AAPL", exchange |-> "SMART",
                   localSymbol |-> "AAPL C", strike |-> "150",
                   lastTradeDateOrContractMonth |-> "20240119",
                   right |-> "C", multiplier |-> "100"],
     longName |-> "APPLE INC", industry |-> "Technology",
     category |-> "Computers", subcategory |-> "Computers",
     timeZoneId |-> "EST", tradingHours |-> "0930-1600",
     liquidHours |-> "0930-1600"]

\* bar dates "20240102 09:30:00" and "20240102 10:00:00", by character
BarDates ==
    {<<"2", "0", "2", "4", "0", "1", "0", "2", " ", "0", "9", ":", "3", "0",
       ":", "0", "0">>,
     <<"2", "0", "2", "4", "0", "1", "0", "2", " ", "1", "0", ":", "0", "0",
       ":", "0", "0">>}

SomeBarData ==
    [date |-> CHOOSE d \in BarDates : d[10] = "0", open |-> "1.0", high |-> "1.1",
     low |-> "0.9", close |-> "1.05", volume |-> "100", barCount |-> "5",
     average |-> "1.02"]

\* the arguments, after the identifier, that a callback passes on to
\* _handle_callback (the end callbacks pass none); exchanges are those an
\* option-parameters row may name
CallbackArgs(callback_name, exchanges) ==
    CASE callback_name = "contractDetails" -> {<<SomeContractDetails>>}
      [] callback_name = "securityDefinitionOptionParameter" ->
            {<<e, "265598", "AAPL", "100", "20240119", "150">> :
                e \in exchanges}
      [] callback_name = "historicalData" -> {<<SomeBarData>>}
      [] OTHER -> {<<>>}

\* error codes the transport may report: the edges of the non-fatal range,
\* the delayed-data code and its neighbours
ErrorCodes == {1999, 2000, 9999, 10000, 10167}

\* identifiers a callback may carry: -1 (no request) and those of requests
EventIds == -1 .. (MaxReq - 1)

\* an error that takes every code for fatal
IsFatal_all(error_code) == TRUE

\* RequestWrapper.error: the codes that end the response (neither in the
\* non-fatal range nor the delayed-data code)
IsFatal(error_code) ==
    ~ (2000 <= error_code /\ error_code < 10000) /\ error_code # 10167

\* a lookup that ignores the identifier
lookup_any(pr, request_id) ==
    IF DOMAIN pr = {} THEN NoObj
    ELSE pr[CHOOSE k \in DOMAIN pr : \A j \in DOMAIN pr : k >= j]

\* _handle_callback: the lookup in pending_responses (NoObj: KeyError)
lookup(pr, request_id) ==
    IF request_id \in DOMAIN pr THEN pr[request_id] ELSE NoObj

\* what _handle_callback makes of the Responses rs registered in table pr:
\* the Response under request_id handles the callback, no Response does
\* when there is none under it
handled(rs, pr, callback_name, request_id, args) ==
    LET o == lookup(pr, request_id)
    IN  IF o = NoObj THEN rs
        ELSE [rs EXCEPT ![o] =
                 handle_response(@, callback_name,
                                 [rid |-> request_id, args |-> args])]

\* what error makes of them: a fatal code goes to _handle_callback as the
\* callback "error", any other code is only logged
error_handled(rs, pr, req_id, error_code) ==
    IF IsFatal(error_code)
    THEN handled(rs, pr, "error", req_id, <<error_code>>)
    ELSE rs

\* a counter that is not incremented
NextId_same(tmp) == tmp

\* _start_request: the incremented counter
NextId(tmp) == tmp + 1

\* a start_app that leaves the event as it is
Cleared_not(c) == c

\* start_app: connected.clear()
Cleared(c) == FALSE

\* a wait that is never given a timeout
WaitArg_none(to) == "None"

\* the timeout handed to Event.wait by start_app and the request methods
WaitArg(to) == to

VARIABLES
    timeout,            \* self.timeout
    callers,            \* the threads that call the wrapper in this run
    app,                \* self._app: the connection it holds, NoObj for None
    connected,          \* self.connected (Event)
    pending_responses,  \* self.pending_responses: identifier -> Response
    next_request_id,    \* self.next_request_id
    thread,             \* self.thread: the connection whose run() it executes
    responses,          \* the Response objects created, by object number
    pc,                 \* where each caller thread is
    loc,                \* the locals of the method each thread runs
    result,             \* what each thread's last call gave
    nconn,              \* connections created (EClient objects)
    open,               \* connections that are connected
    alive,              \* connections whose receive thread is running
    acked               \* connections whose connectAck was delivered

wvars == <<timeout, callers, app, connected, pending_responses,
           next_request_id, thread, responses, pc, loc, result, nconn, open,
           alive, acked>>

\* Part Q: request_wrapper.py, the RequestWrapper that hands its tables to
\* the caller over a queue
VARIABLES
    rw,                 \* the fields of the request_wrapper.RequestWrapper
    queues,             \* the Queue objects created, by object number
    tables,             \* the DataFrame objects created, by object number
    qpc,                \* where each caller thread of it is
    qloc,               \* the blocking get a thread is in
    qresult,            \* what each thread's last call gave
    qnet,               \* its connections: created, open, alive, acked
    qcb                 \* the callback each receive thread is in

qvars == <<rw, queues, tables, qpc, qloc, qresult, qnet, qcb>>

\* Part T: the tools, wrappers driven by the callbacks of one receive loop
VARIABLES
    ep,                 \* the fields of the tools.equity_price wrapper
    epnet,              \* its connection, and what it sent, made and stored
    oc,                 \* the fields of the tools.option_chain wrapper
    ocnet               \* its connection, and what it sent

tvars == <<ep, epnet, oc, ocnet>>

vars == <<wvars, qvars, tvars>>

NoLoc == [m |-> "", obj |-> NoObj, current_id |-> -1, tmp |-> -1]

\* what a call gave: status is "returned" or "raised", by is "set" when the
\* wait ended because the event was set and "timeout" when it gave up, rows
\* is what the returned table (that of Response obj) held at the return
NoResult == [call |-> "", status |-> "none", obj |-> NoObj, rows |-> <<>>,
             by |-> ""]

\* RequestWrapper.__init__, and the threads cs that call the wrapper
InitW(cs, tos) ==
    /\ timeout \in tos
    /\ callers = cs
    /\ app = NoObj
    /\ connected = FALSE
    /\ pending_responses = [k \in {} |-> NoObj]
    /\ next_request_id = 0
    /\ thread = NoObj
    /\ responses = <<>>
    /\ pc = [t \in Threads |-> "idle"]
    /\ loc = [t \in Threads |-> NoLoc]
    /\ result = [t \in Threads |-> NoResult]
    /\ nconn = 0
    /\ open = {}
    /\ alive = {}
    /\ acked = {}

\* reconnects are explored with one caller thread
ConnLimit == IF callers = {Owner} THEN MaxConn ELSE 1

----------------------------------------------------------------------------
(* start_app and stop_app, run by the owner thread *)

\* start_app, lines 66-68: a new EClient, connected.clear(), the counter reset
start_app_reset(t) ==
    /\ t = Owner /\ t \in callers /\ pc[t] = "idle"
    /\ nconn < ConnLimit
    /\ nconn' = nconn + 1
    /\ app' = nconn + 1
    /\ connected' = Cleared(connected)
    /\ next_request_id' = 0
    /\ pc' = [pc EXCEPT ![t] = "sa_connect"]
    /\ result' = [result EXCEPT ![t] = NoResult]
    /\ UNCHANGED <<tvars, qvars, timeout, callers, pending_responses, thread, responses, loc,
                   open, alive, acked>>

\* start_app, lines 69-71: connect, then the receive thread is started
start_app_connect(t) ==
    /\ pc[t] = "sa_connect"
    /\ open' = open \cup {app}
    /\ thread' = app
    /\ alive' = alive \cup {app}
    /\ pc' = [pc EXCEPT ![t] = "sa_wait"]
    /\ UNCHANGED <<tvars, qvars, timeout, callers, app, connected, pending_responses,
                   next_request_id, responses, loc, result, nconn, acked>>

\* start_app, line 73: connected.wait returns because the event is set
start_app_acked(t) ==
    /\ pc[t] = "sa_wait"
    /\ connected
    /\ pc' = [pc EXCEPT ![t] = "idle"]
    /\ result' = [result EXCEPT ![t] =
            [NoResult EXCEPT !.call = "start_app", !.status = "returned",
                             !.by = "set"]]
    /\ UNCHANGED <<tvars, qvars, timeout, callers, app, connected, pending_responses,
                   next_request_id, thread, responses, loc, nconn, open,
                   alive, acked>>

\* start_app, line 73: connected.wait gives up; its result is not looked at
start_app_timed_out(t) ==
    /\ pc[t] = "sa_wait"
    /\ ~ connected
    /\ WaitArg(timeout) # "None"
    /\ pc' = [pc EXCEPT ![t] = "idle"]
    /\ result' = [result EXCEPT ![t] =
            [NoResult EXCEPT !.call = "start_app", !.status = "returned",
                             !.by = "timeout"]]
    /\ UNCHANGED <<tvars, qvars, timeout, callers, app, connected, pending_responses,
                   next_request_id, thread, responses, loc, nconn, open,
                   alive, acked>>

\* stop_app: disconnect (the receive loop of that connection ends) and join
stop_app(t) ==
    /\ t = Owner /\ t \in callers /\ pc[t] = "idle"
    /\ IF app = NoObj
       THEN /\ result' = [result EXCEPT ![t] =
                    [NoResult EXCEPT !.call = "stop_app", !.status = "raised"]]
            /\ UNCHANGED <<open, alive>>
       ELSE /\ open' = open \ {app}
            /\ alive' = alive \ {thread}
            /\ result' = [result EXCEPT ![t] =
                    [NoResult EXCEPT !.call = "stop_app",
                                     !.status = "returned"]]
    /\ UNCHANGED <<tvars, qvars, timeout, callers, app, connected, pending_responses,
                   next_request_id, thread, responses, pc, loc, nconn, acked>>

----------------------------------------------------------------------------
(* the request methods *)

\* callbacks that reached a Response so far
Dispatched(rs, n) ==
    LET RECURSIVE Sum(_)
        Sum(i) == IF i = 0 THEN 0 ELSE Len(rs[i].log) + Sum(i - 1)
    IN  Sum(n)

\* a request method is entered on a wrapper that start_app was called on: the
\* Response is created and _start_request reads the counter (line 273)
request_call(t, m) ==
    /\ t \in callers /\ pc[t] = "idle"
    /\ app # NoObj
    /\ Len(responses) < MaxReq
    /\ responses' = Append(responses, NewResponse(ResponseClass(m)))
    /\ loc' = [loc EXCEPT ![t] =
            [m |-> m, obj |-> Len(responses) + 1,
             current_id |-> next_request_id, tmp |-> -1]]
    /\ pc' = [pc EXCEPT ![t] = "sr_load"]
    /\ result' = [result EXCEPT ![t] = NoResult]
    /\ UNCHANGED <<tvars, qvars, timeout, callers, app, connected, pending_responses,
                   next_request_id, thread, nconn, open, alive, acked>>

\* _start_request, line 274: the counter is read again to be incremented
start_request_load(t) ==
    /\ pc[t] = "sr_load"
    /\ loc' = [loc EXCEPT ![t].tmp = next_request_id]
    /\ pc' = [pc EXCEPT ![t] = "sr_store"]
    /\ UNCHANGED <<tvars, qvars, timeout, callers, app, connected, pending_responses,
                   next_request_id, thread, responses, result, nconn, open,
                   alive, acked>>

\* _start_request, line 274: the incremented value is stored
start_request_store(t) ==
    /\ pc[t] = "sr_store"
    /\ next_request_id' = NextId(loc[t].tmp)
    /\ pc' = [pc EXCEPT ![t] = "sr_insert"]
    /\ UNCHANGED <<tvars, qvars, timeout, callers, app, connected, pending_responses,
                   thread, responses, loc, result, nconn, open, alive, acked>>

\* a _start_request that leaves the table as it is
inserted_not(pr, id, o) == pr

\* _start_request, line 275: pending_responses[current_id] = response
inserted(pr, id, o) ==
    [k \in DOMAIN pr \cup {id} |-> IF k = id THEN o ELSE pr[k]]

\* _start_request, lines 275-276: the Response is put in the table
start_request_insert(t) ==
    /\ pc[t] = "sr_insert"
    /\ LET id == loc[t].current_id
           o == loc[t].obj
       IN  /\ pending_responses' = inserted(pending_responses, id, o)
           /\ responses' = [responses EXCEPT
                ![o].key = id, ![o].conn = app,
                ![o].over = lookup(pending_responses, id)]
    /\ pc' = [pc EXCEPT ![t] = "send"]
    /\ UNCHANGED <<tvars, qvars, timeout, callers, app, connected, next_request_id, thread,
                   loc, result, nconn, open, alive, acked>>

\* the rest of the method up to the wait: the contract is built
\* (_get_option_contract checks right), _request_historical checks bar_size,
\* and the request is sent through self._app
request_send(t, right, bar_size) ==
    /\ pc[t] = "send"
    /\ right = "C" \/ loc[t].m \in OptionHistoryMethods
    /\ bar_size = "30 mins" \/ loc[t].m \in HistoryMethods
    /\ LET l == loc[t]
           raises ==
              \/ l.m \in OptionHistoryMethods /\ InvalidRight(right)
              \/ l.m \in HistoryMethods /\ InvalidBarSize(bar_size)
           given == [responses EXCEPT
                        ![l.obj].right =
                            IF l.m \in OptionHistoryMethods THEN right ELSE "",
                        ![l.obj].bar_size =
                            IF l.m \in HistoryMethods THEN bar_size ELSE ""]
       IN  IF raises
           THEN /\ pc' = [pc EXCEPT ![t] = "idle"]
                /\ result' = [result EXCEPT ![t] =
                        [NoResult EXCEPT !.call = "request",
                                         !.status = "raised", !.obj = l.obj]]
                /\ loc' = [loc EXCEPT ![t] = NoLoc]
                /\ responses' = given
           ELSE /\ pc' = [pc EXCEPT ![t] = "wait"]
                /\ loc' = [loc EXCEPT ![t] =
                        [NoLoc EXCEPT !.obj = l.obj,
                                      !.current_id = l.current_id]]
                /\ responses' = [given EXCEPT ![l.obj].sent = TRUE]
                /\ UNCHANGED result
    /\ UNCHANGED <<tvars, qvars, timeout, callers, app, connected, pending_responses,
                   next_request_id, thread, nconn, open, alive, acked>>

\* response.finished.wait returns because the event is set; the table is
\* returned (rows: what it held at that moment)
request_wait_set(t) ==
    /\ pc[t] = "wait"
    /\ responses[loc[t].obj].finished
    /\ pc' = [pc EXCEPT ![t] = "idle"]
    /\ result' = [result EXCEPT ![t] =
            [NoResult EXCEPT !.call = "request", !.status = "returned",
                             !.obj = loc[t].obj,
                             !.rows = responses[loc[t].obj].table,
                             !.by = "set"]]
    /\ loc' = [loc EXCEPT ![t] = NoLoc]
    /\ UNCHANGED <<tvars, qvars, timeout, callers, app, connected, pending_responses,
                   next_request_id, thread, responses, nconn, open, alive,
                   acked>>

\* response.finished.wait gives up after the timeout; the table is returned
request_wait_timed_out(t) ==
    /\ pc[t] = "wait"
    /\ ~ responses[loc[t].obj].finished
    /\ WaitArg(timeout) # "None"
    /\ pc' = [pc EXCEPT ![t] = "idle"]
    /\ result' = [result EXCEPT ![t] =
            [NoResult EXCEPT !.call = "request", !.status = "returned",
                             !.obj = loc[t].obj,
                             !.rows = responses[loc[t].obj].table,
                             !.by = "timeout"]]
    /\ loc' = [loc EXCEPT ![t] = NoLoc]
    /\ UNCHANGED <<tvars, qvars, timeout, callers, app, connected, pending_responses,
                   next_request_id, thread, responses, nconn, open, alive,
                   acked>>

----------------------------------------------------------------------------
(* the callbacks, invoked by the transport *)

\* connectAck: once for a connection that is connected
connectAck(c) ==
    /\ c \in open /\ c \notin acked
    /\ connected' = TRUE
    /\ acked' = acked \cup {c}
    /\ UNCHANGED <<tvars, qvars, timeout, callers, app, pending_responses, next_request_id,
                   thread, responses, pc, loc, result, nconn, open, alive>>

\* _handle_callback on the receive thread of connection c. No Response under
\* the identifier: logged, nothing changes. When handle_response raises, the
\* exception leaves the callback: the receive loop (ibapi's) either goes on
\* or ends, closing the connection.
handle_callback(c, callback_name, request_id, args) ==
    LET o == lookup(pending_responses, request_id)
    IN  IF o = NoObj
        THEN /\ responses' =
                  handled(responses, pending_responses, callback_name,
                          request_id, args)
             /\ UNCHANGED <<alive, open>>
        ELSE /\ responses' =
                  handled(responses, pending_responses, callback_name,
                          request_id, args)
             /\ IF callback_name = row_callback(responses[o].cls)
                   /\ RowRaises(responses[o].cls)
                THEN \/ UNCHANGED <<alive, open>>
                     \/ /\ alive' = alive \ {c}
                        /\ open' = open \ {c}
                ELSE UNCHANGED <<alive, open>>

\* contractDetails ... historicalDataEnd
callback(c, callback_name, request_id, args) ==
    /\ c \in alive
    /\ handle_callback(c, callback_name, request_id, args)
    /\ UNCHANGED <<tvars, qvars, timeout, callers, app, connected, pending_responses,
                   next_request_id, thread, pc, loc, result, nconn, acked>>

\* error
error(c, req_id, error_code) ==
    /\ c \in alive
    /\ IF IsFatal(error_code)
       THEN handle_callback(c, "error", req_id, <<error_code>>)
       ELSE /\ responses' =
                 error_handled(responses, pending_responses, req_id,
                               error_code)
            /\ UNCHANGED <<alive, open>>
    /\ UNCHANGED <<tvars, qvars, timeout, callers, app, connected, pending_responses,
                   next_request_id, thread, pc, loc, result, nconn, acked>>

\* the steps of the wrapper with request methods ms, option-parameters rows
\* naming the exchanges, and at most limit callbacks reaching Responses
NextOf(ms, exchanges, limit) ==
    \/ \E t \in Threads : start_app_reset(t)
    \/ \E t \in Threads : start_app_connect(t)
    \/ \E t \in Threads : start_app_acked(t)
    \/ \E t \in Threads : start_app_timed_out(t)
    \/ \E t \in Threads : stop_app(t)
    \/ \E t \in Threads, m \in ms : request_call(t, m)
    \/ \E t \in Threads : start_request_load(t)
    \/ \E t \in Threads : start_request_store(t)
    \/ \E t \in Threads : start_request_insert(t)
    \/ \E t \in Threads, right \in Rights, bar_size \in BarSizes :
            request_send(t, right, bar_size)
    \/ \E t \in Threads : request_wait_set(t)
    \/ \E t \in Threads : request_wait_timed_out(t)
    \/ \E c \in 1 .. MaxConn : connectAck(c)
    \/ \E c \in 1 .. MaxConn, cb \in Callbacks, id \in EventIds :
            \E args \in CallbackArgs(cb, exchanges) :
                /\ Dispatched(responses, Len(responses)) < limit
                /\ callback(c, cb, id, args)
    \/ \E c \in 1 .. MaxConn, id \in EventIds, code \in ErrorCodes :
            /\ Dispatched(responses, Len(responses)) < limit
            /\ error(c, id, code)

NextW == NextOf(Methods, {"SMART"}, MaxEvents)

\* an option-parameters request and the rows of two exchanges
RowMethods == {"request_option_params"}

NextRows == NextOf(RowMethods, Exchanges, MaxRowEvents)

----------------------------------------------------------------------------
(***************************************************************************)
(* request_wrapper.py: the RequestWrapper with one response queue.         *)
(***************************************************************************)

\* the public request methods explored, and all of them
QAllMethods ==
    {"request_stock_details", "request_option_params", "request_option_chain",
     "request_stock_trades_history", "request_stock_iv_history",
     "request_stock_hv_history", "request_option_trades_history",
     "request_option_bidask_history"}

QMethods == {"request_stock_details", "request_stock_trades_history"}

\* the request name each method gives to _start_request
RequestName(m) ==
    CASE m = "request_stock_details"          -> "STOCK_DETAILS"
      [] m = "request_option_params"          -> "OPTION_PARAMS"
      [] m = "request_option_chain"           -> "OPTION_DETAILS"
      [] m = "request_stock_trades_history"   -> "HISTORICAL_TRADES_EQUITY"
      [] m = "request_stock_iv_history"       -> "HISTORICAL_IV_EQUITY"
      [] m = "request_stock_hv_history"       -> "HISTORICAL_HV_EQUITY"
      [] m = "request_option_trades_history"  -> "HISTORICAL_TRADES_OPTIONS"
      [] m = "request_option_bidask_history"  -> "HISTORICAL_BID_ASK_OPTIONS"

\* REQUEST_CALLBACKS; "KeyError" for a name that is no key ("INIT", None)
REQUEST_CALLBACKS(request_name) ==
    CASE request_name \in {"STOCK_DETAILS", "OPTION_DETAILS"}
            -> "contractDetails"
      [] request_name = "OPTION_PARAMS"
            -> "securityDefinitionOptionParameter"
      [] request_name \in {"HISTORICAL_TRADES_EQUITY",
                           "HISTORICAL_TRADES_OPTIONS",
                           "HISTORICAL_BID_ASK_OPTIONS",
                           "HISTORICAL_IV_EQUITY", "HISTORICAL_HV_EQUITY"}
            -> "historicalData"
      [] OTHER -> "KeyError"

\* the methods that end in _request_historical
QHistoryMethods ==
    {"request_stock_trades_history", "request_stock_iv_history",
     "request_stock_hv_history", "request_option_trades_history",
     "request_option_bidask_history"}

\* the timeout argument of the response_queue.get a method blocks in:
\* get(timeout=self.timeout) in the methods themselves, get() in
\* _request_historical
GetTimeout(m, to) == IF m \in QHistoryMethods THEN "None" ELSE to

\* the callback names _handle_callback and _handle_callback_end are called
\* with (contractDetailsEnd passes "contractDetails", historicalDataEnd
\* "historicalData")
QCallbacks == {"contractDetails", "historicalData"}

\* the identifiers callbacks carry, and the contract ids of their rows
QEventIds == -1 .. MaxQReq
QKeys == {1}

\* error codes the transport reports: one that is fatal, one that is not
QErrorCodes == {1999, 2000}

\* the value of a decimal digit, and of a sequence of digits
Digit(ch) ==
    CASE ch = "0" -> 0 [] ch = "1" -> 1 [] ch = "2" -> 2 [] ch = "3" -> 3
      [] ch = "4" -> 4 [] ch = "5" -> 5 [] ch = "6" -> 6 [] ch = "7" -> 7
      [] ch = "8" -> 8 [] ch = "9" -> 9

RECURSIVE Number(_)
Number(chars) ==
    IF chars = <<>> THEN 0
    ELSE 10 * Number(SubSeq(chars, 1, Len(chars) - 1))
            + Digit(chars[Len(chars)])

\* datetime.strptime(date, "%Y%m%d %H:%M:%S") of a string in that format
strptime(date) ==
    [year |-> Number(SubSeq(date, 1, 4)), month |-> Number(SubSeq(date, 5, 6)),
     day |-> Number(SubSeq(date, 7, 8)), hour |-> Number(SubSeq(date, 10, 11)),
     minute |-> Number(SubSeq(date, 13, 14)),
     second |-> Number(SubSeq(date, 16, 17))]

\* the bars the transport delivers
Bars == {[SomeBarData EXCEPT !.date = d] : d \in BarDates}

\* the arguments, after the identifier, of a row callback
QCallbackArgs(callback_name) ==
    CASE callback_name = "contractDetails" ->
            {<<[SomeContractDetails EXCEPT !.contract.conId = k]>> :
                k \in QKeys}
      [] callback_name = "historicalData" -> {<<bar>> : bar \in Bars}

\* a row function for trades with barCount before volume
historical_trades_row_function_swapped(bar) ==
    [keyed |-> TRUE, index |-> strptime(bar.date),
     row |-> <<bar.open, bar.high, bar.low, bar.close, bar.barCount,
               bar.volume, bar.average>>]

\* historical_trades_row_function and historical_data_row_function: the
\* index (keyed: it is not None) and the row
historical_trades_row_function(bar) ==
    [keyed |-> TRUE, index |-> strptime(bar.date),
     row |-> <<bar.open, bar.high, bar.low, bar.close, bar.volume,
               bar.barCount, bar.average>>]

historical_data_row_function(bar) ==
    [keyed |-> TRUE, index |-> strptime(bar.date),
     row |-> <<bar.open, bar.high, bar.low, bar.close, bar.barCount,
               bar.average>>]

\* RESPONSE_ROW_FUNCTION[request_name](*args)
RESPONSE_ROW_FUNCTION(request_name, args) ==
    CASE request_name = "STOCK_DETAILS" ->
            [keyed |-> TRUE, index |-> args[1].contract.conId,
             row |-> <<args[1].contract.symbol, args[1].contract.exchange,
                       args[1].longName, args[1].industry, args[1].category,
                       args[1].subcategory, args[1].timeZoneId,
                       args[1].tradingHours, args[1].liquidHours>>]
      [] request_name = "OPTION_PARAMS" ->
            [keyed |-> FALSE, index |-> 0,
             row |-> <<args[1], args[4], args[5], args[6]>>]
      [] request_name = "OPTION_DETAILS" ->
            [keyed |-> TRUE, index |-> args[1].contract.conId,
             row |-> <<args[1].contract.localSymbol, args[1].contract.exchange,
                       args[1].contract.lastTradeDateOrContractMonth,
                       args[1].contract.strike, args[1].contract.right,
                       args[1].contract.multiplier>>]
      [] request_name \in {"HISTORICAL_TRADES_EQUITY",
                           "HISTORICAL_TRADES_OPTIONS"} ->
            historical_trades_row_function(args[1])
      [] request_name = "HISTORICAL_BID_ASK_OPTIONS" ->
            [keyed |-> TRUE, index |-> strptime(args[1].date),
             row |-> <<args[1].open, args[1].high, args[1].low,
                       args[1].close>>]
      [] request_name \in {"HISTORICAL_IV_EQUITY", "HISTORICAL_HV_EQUITY"} ->
            historical_data_row_function(args[1])

\* REQUEST_FIELDS: the columns of the table of a request
REQUEST_FIELDS(request_name) ==
    CASE request_name = "STOCK_DETAILS" ->
            <<"ticker", "exchange", "long_name", "industry", "category",
              "sub_category", "time_zone_id", "trading_hours",
              "liquid_hours">>
      [] request_name = "OPTION_PARAMS" ->
            <<"exchange", "multiplier", "expirations", "strikes">>
      [] request_name = "OPTION_DETAILS" ->
            <<"option_ticker", "exchange", "expiration", "strike", "right",
              "multiplier">>
      [] request_name \in {"HISTORICAL_TRADES_EQUITY",
                           "HISTORICAL_TRADES_OPTIONS"} ->
            <<"open", "high", "low", "close", "volume", "count", "average">>
      [] request_name = "HISTORICAL_BID_ASK_OPTIONS" ->
            <<"average_bid", "max_ask", "min_bid", "average_ask">>
      [] request_name \in {"HISTORICAL_IV_EQUITY", "HISTORICAL_HV_EQUITY"} ->
            <<"open", "high", "low", "close", "count", "average">>

\* _handle_callback, lines 390-393: the callback is the one
\* REQUEST_CALLBACKS expects for the current request
Accepts(request_name, callback_name) ==
    REQUEST_CALLBACKS(request_name) = callback_name

\* a check of the end callback that lets every callback pass
EndAccepts_any(request_name, callback_name) == TRUE

\* _handle_callback_end, lines 406-410: the same check
EndAccepts(request_name, callback_name) ==
    REQUEST_CALLBACKS(request_name) = callback_name

\* error: the codes that put the table on the queue
QIsFatal(error_code) ==
    ~ (2000 <= error_code /\ error_code < 10000) /\ error_code # 10167

\* Queue.put
put(qs, q, item) == [qs EXCEPT ![q] = Append(@, item)]

\* an item of a queue: the table put (NoObj for None) and, as history, what
\* put it ("connectAck", "end", "error"), the identifier an end callback
\* carried and the connection a connectAck came from
Item(table, by, rid, c) ==
    [table |-> table, by |-> by, rid |-> rid, conn |-> c]

NoItem == Item(NoObj, "", -2, NoObj)

\* pd.DataFrame(columns=...) and, as history, the identifier and the name
\* of the request it was created for and the callbacks handled while it was
\* the response table: "row" wrote it, "end" and "error" put it on the
\* queue, "ignored" and "dropped" were a row and an end callback that were
\* not the one expected
NewTable(id, request_name) ==
    [id |-> id, request |-> request_name, rows |-> <<>>, log |-> <<>>]

\* the locals of a caller: the call it is in, the identifier its
\* _start_request made, the table it created, the connection it started,
\* and the queue and timeout of the get it blocks in
NoGet == [call |-> "", id |-> -2, table |-> NoObj, conn |-> NoObj,
          queue |-> NoObj, to |-> "None"]
NoQResult == [call |-> "", status |-> "none", item |-> NoItem, id |-> -2,
              table |-> NoObj, conn |-> NoObj]

\* a receive thread that is in no callback
NoCall == [kind |-> "", callback_name |-> "", request_id |-> -2,
           args |-> <<>>]

\* RequestWrapper.__init__
InitQ(tos) ==
    /\ rw \in [response_queue : {1}, timeout : tos, app : {NoObj},
               current_request_id : {0}, current_request : {"None"},
               response_table : {NoObj}, thread : {NoObj}]
    /\ queues = << <<>> >>
    /\ tables = <<>>
    /\ qpc = [t \in Threads |-> "idle"]
    /\ qloc = [t \in Threads |-> NoGet]
    /\ qresult = [t \in Threads |-> NoQResult]
    /\ qnet = [n |-> 0, open |-> {}, alive |-> {}, acked |-> {}]
    /\ qcb = [c \in 1 .. MaxQConn |-> NoCall]

\* items put on queues and not taken yet
RECURSIVE Queued(_, _)
Queued(qs, n) ==
    IF n = 0 THEN 0 ELSE Len(qs[n]) + Queued(qs, n - 1)

\* callbacks that passed the identifier check or put a table so far
RECURSIVE QDispatched(_, _, _)
QDispatched(ts, calls, n) ==
    IF n = 0 THEN Cardinality({c \in DOMAIN calls : calls[c].kind # ""})
    ELSE Len(ts[n].log) + QDispatched(ts, calls, n - 1)

\* start_app up to its response_queue.get(timeout=self.timeout)
rw_start_app(t) ==
    /\ t = Owner /\ qpc[t] = "idle"
    /\ rw' = [rw EXCEPT !.app = qnet.n + 1, !.current_request_id = 0,
                        !.current_request = "INIT",
                        !.response_table = NoObj, !.thread = qnet.n + 1]
    /\ qnet' = [qnet EXCEPT !.n = @ + 1, !.open = @ \cup {qnet.n + 1},
                            !.alive = @ \cup {qnet.n + 1}]
    /\ qpc' = [qpc EXCEPT ![t] = "get"]
    /\ qloc' = [qloc EXCEPT ![t] =
            [NoGet EXCEPT !.call = "start_app", !.conn = qnet.n + 1,
                          !.queue = rw.response_queue, !.to = rw.timeout]]
    /\ qresult' = [qresult EXCEPT ![t] = NoQResult]
    /\ UNCHANGED <<tvars, wvars, queues, tables, qcb>>

\* stop_app: disconnect and join (the receive thread ends after the callback
\* it is in); _app is None before the first start_app
rw_stop_app(t) ==
    /\ t = Owner /\ qpc[t] = "idle"
    /\ IF rw.app = NoObj
       THEN /\ qresult' = [qresult EXCEPT ![t] =
                    [NoQResult EXCEPT !.call = "stop_app", !.status = "raised"]]
            /\ UNCHANGED qnet
       ELSE /\ qcb[rw.thread] = NoCall
            /\ qnet' = [qnet EXCEPT !.open = @ \ {rw.app},
                                    !.alive = @ \ {rw.thread}]
            /\ qresult' = [qresult EXCEPT ![t] =
                    [NoQResult EXCEPT !.call = "stop_app",
                                      !.status = "returned"]]
    /\ UNCHANGED <<tvars, wvars, rw, queues, tables, qpc, qloc, qcb>>

\* a request method is entered; _start_request, line 335: the identifier is
\* incremented
rw_request(t, m) ==
    /\ qpc[t] = "idle"
    /\ rw.app # NoObj
    /\ Len(tables) + Cardinality({u \in Threads : qpc[u] = "start"}) < MaxQReq
    /\ rw' = [rw EXCEPT !.current_request_id = @ + 1]
    /\ qpc' = [qpc EXCEPT ![t] = "start"]
    /\ qloc' = [qloc EXCEPT ![t] =
            [NoGet EXCEPT !.call = m, !.id = rw.current_request_id + 1]]
    /\ qresult' = [qresult EXCEPT ![t] = NoQResult]
    /\ UNCHANGED <<tvars, wvars, queues, tables, qnet, qcb>>

\* _start_request, lines 336-338: the request name, a new Queue, a new table
rw_start_request(t) ==
    /\ qpc[t] = "start"
    /\ rw' = [rw EXCEPT !.current_request = RequestName(qloc[t].call),
                        !.response_queue = Len(queues) + 1,
                        !.response_table = Len(tables) + 1]
    /\ queues' = Append(queues, <<>>)
    /\ tables' = Append(tables,
                        NewTable(qloc[t].id, RequestName(qloc[t].call)))
    /\ qloc' = [qloc EXCEPT ![t].table = Len(tables) + 1]
    /\ qpc' = [qpc EXCEPT ![t] = "send"]
    /\ UNCHANGED <<tvars, wvars, qresult, qnet, qcb>>

\* the rest of the method up to its blocking get: the check of bar_size in
\* _request_historical, the request sent, self.response_queue read for the
\* get
rw_send(t, bar_size) ==
    /\ qpc[t] = "send"
    /\ bar_size = "30 mins" \/ qloc[t].call \in QHistoryMethods
    /\ IF qloc[t].call \in QHistoryMethods /\ InvalidBarSize(bar_size)
       THEN /\ qresult' = [qresult EXCEPT ![t] =
                    [NoQResult EXCEPT !.call = qloc[t].call,
                                      !.status = "raised",
                                      !.id = qloc[t].id,
                                      !.table = qloc[t].table]]
            /\ qpc' = [qpc EXCEPT ![t] = "idle"]
            /\ qloc' = [qloc EXCEPT ![t] = NoGet]
       ELSE /\ qpc' = [qpc EXCEPT ![t] = "get"]
            /\ qloc' = [qloc EXCEPT
                    ![t].queue = rw.response_queue,
                    ![t].to = GetTimeout(qloc[t].call, rw.timeout)]
            /\ UNCHANGED qresult
    /\ UNCHANGED <<tvars, wvars, rw, queues, tables, qnet, qcb>>

\* Queue.get returns the first item of the queue
rw_get_item(t) ==
    /\ qpc[t] = "get"
    /\ queues[qloc[t].queue] # <<>>
    /\ queues' = [queues EXCEPT ![qloc[t].queue] = Tail(@)]
    /\ qpc' = [qpc EXCEPT ![t] = "idle"]
    /\ qresult' = [qresult EXCEPT ![t] =
            [call |-> qloc[t].call, status |-> "returned",
             item |-> Head(queues[qloc[t].queue]), id |-> qloc[t].id,
             table |-> qloc[t].table, conn |-> qloc[t].conn]]
    /\ qloc' = [qloc EXCEPT ![t] = NoGet]
    /\ UNCHANGED <<tvars, wvars, rw, tables, qnet, qcb>>

\* Queue.get(timeout=...) gives up: queue.Empty goes to the caller
rw_get_timed_out(t) ==
    /\ qpc[t] = "get"
    /\ queues[qloc[t].queue] = <<>>
    /\ qloc[t].to # "None"
    /\ qpc' = [qpc EXCEPT ![t] = "idle"]
    /\ qresult' = [qresult EXCEPT ![t] =
            [NoQResult EXCEPT !.call = qloc[t].call, !.status = "raised",
                              !.id = qloc[t].id, !.table = qloc[t].table,
                              !.conn = qloc[t].conn]]
    /\ qloc' = [qloc EXCEPT ![t] = NoGet]
    /\ UNCHANGED <<tvars, wvars, rw, queues, tables, qnet, qcb>>

\* connectAck: once for a connection that is connected
rw_connectAck(c) ==
    /\ c \in qnet.open /\ c \notin qnet.acked
    /\ qcb[c] = NoCall
    /\ qnet' = [qnet EXCEPT !.acked = @ \cup {c}]
    /\ IF rw.current_request = "INIT"
       THEN /\ Queued(queues, Len(queues)) < MaxQueued
            /\ queues' = put(queues, rw.response_queue,
                             Item(NoObj, "connectAck", -2, c))
       ELSE UNCHANGED queues
    /\ UNCHANGED <<tvars, wvars, rw, tables, qpc, qloc, qresult, qcb>>

\* a row callback (kind "row") or an end callback (kind "end") on the
\* receive thread of connection c; _handle_callback and
\* _handle_callback_end, lines 385-388 and 401-404: the identifier is
\* compared with current_request_id, the callback returns when they differ
rw_check_id(c, kind, callback_name, request_id, args) ==
    /\ c \in qnet.alive
    /\ qcb[c] = NoCall
    /\ kind = "row" \/ args = <<>>
    /\ IF request_id # rw.current_request_id
       THEN UNCHANGED qcb
       ELSE /\ QDispatched(tables, qcb, Len(tables)) < MaxQEvents
            /\ qcb' = [qcb EXCEPT ![c] =
                [kind |-> kind, callback_name |-> callback_name,
                 request_id |-> request_id, args |-> args]]
    /\ UNCHANGED <<tvars, wvars, rw, queues, tables, qpc, qloc, qresult, qnet>>

\* _handle_callback, lines 390-398: the callback name check, the row
\* function, the row written under its index. REQUEST_CALLBACKS has no key
\* "INIT": the KeyError leaves the callback, and the receive loop (ibapi's)
\* either goes on or ends.
rw_handle_callback(c) ==
    /\ qcb[c].kind = "row"
    /\ qcb' = [qcb EXCEPT ![c] = NoCall]
    /\ IF REQUEST_CALLBACKS(rw.current_request) = "KeyError"
       THEN /\ UNCHANGED tables
            /\ \/ UNCHANGED qnet
               \/ qnet' = [qnet EXCEPT !.alive = @ \ {c}, !.open = @ \ {c}]
       ELSE IF ~ Accepts(rw.current_request, qcb[c].callback_name)
       THEN /\ tables' = [tables EXCEPT
                    ![rw.response_table].log = Append(@, "ignored")]
            /\ UNCHANGED qnet
       ELSE LET f == RESPONSE_ROW_FUNCTION(rw.current_request, qcb[c].args)
                table == tables[rw.response_table]
                index == IF f.keyed THEN f.index ELSE Len(table.rows)
            IN  /\ tables' = [tables EXCEPT
                        ![rw.response_table].rows =
                            loc_set(@, index,
                                    [index |-> index,
                                     rid |-> qcb[c].request_id,
                                     data |-> f.row, args |-> qcb[c].args]),
                        ![rw.response_table].log = Append(@, "row")]
                /\ UNCHANGED qnet
    /\ UNCHANGED <<tvars, wvars, rw, queues, qpc, qloc, qresult>>

\* _handle_callback_end, lines 406-413: the callback name check, then the
\* table is put on the response queue
rw_handle_callback_end(c) ==
    /\ qcb[c].kind = "end"
    /\ qcb' = [qcb EXCEPT ![c] = NoCall]
    /\ IF REQUEST_CALLBACKS(rw.current_request) = "KeyError"
       THEN /\ UNCHANGED <<queues, tables>>
            /\ \/ UNCHANGED qnet
               \/ qnet' = [qnet EXCEPT !.alive = @ \ {c}, !.open = @ \ {c}]
       ELSE IF ~ EndAccepts(rw.current_request, qcb[c].callback_name)
       THEN /\ tables' = [tables EXCEPT
                    ![rw.response_table].log = Append(@, "dropped")]
            /\ UNCHANGED <<queues, qnet>>
       ELSE /\ Queued(queues, Len(queues)) < MaxQueued
            /\ queues' = put(queues, rw.response_queue,
                             Item(rw.response_table, "end",
                                  qcb[c].request_id, NoObj))
            /\ tables' = [tables EXCEPT
                    ![rw.response_table].log = Append(@, "end")]
            /\ UNCHANGED qnet
    /\ UNCHANGED <<tvars, wvars, rw, qpc, qloc, qresult>>

\* what error makes of the queues qs of wrapper w: a fatal code puts the
\* table on the response queue
error_put(qs, w, req_id, error_code) ==
    IF QIsFatal(error_code)
    THEN put(qs, w.response_queue, Item(w.response_table, "error", -2, NoObj))
    ELSE qs

\* error
rw_error(c, req_id, error_code) ==
    /\ c \in qnet.alive
    /\ qcb[c] = NoCall
    /\ IF QIsFatal(error_code)
       THEN /\ Queued(queues, Len(queues)) < MaxQueued
            /\ QDispatched(tables, qcb, Len(tables)) < MaxQEvents
            /\ queues' = error_put(queues, rw, req_id, error_code)
            /\ tables' = IF rw.response_table = NoObj THEN tables
                         ELSE [tables EXCEPT
                                 ![rw.response_table].log =
                                     Append(@, "error")]
       ELSE UNCHANGED <<queues, tables>>
    /\ UNCHANGED <<tvars, wvars, rw, qpc, qloc, qresult, qnet, qcb>>

\* the steps of the wrapper with caller threads cs and at most conns
\* connections made
NextQOf(cs, conns) ==
    \/ \E t \in cs : qnet.n < conns /\ rw_start_app(t)
    \/ \E t \in cs : rw_stop_app(t)
    \/ \E t \in cs, m \in QMethods : rw_request(t, m)
    \/ \E t \in cs : rw_start_request(t)
    \/ \E t \in cs, bar_size \in BarSizes : rw_send(t, bar_size)
    \/ \E t \in cs : rw_get_item(t)
    \/ \E t \in cs : rw_get_timed_out(t)
    \/ \E c \in 1 .. MaxQConn : rw_connectAck(c)
    \/ \E c \in 1 .. MaxQConn, cb \in QCallbacks, id \in QEventIds :
          \E args \in QCallbackArgs(cb) : rw_check_id(c, "row", cb, id, args)
    \/ \E c \in 1 .. MaxQConn, cb \in QCallbacks, id \in QEventIds :
          rw_check_id(c, "end", cb, id, <<>>)
    \/ \E c \in 1 .. MaxQConn : rw_handle_callback(c)
    \/ \E c \in 1 .. MaxQConn : rw_handle_callback_end(c)
    \/ \E c \in 1 .. MaxQConn, id \in QEventIds, code \in QErrorCodes :
            rw_error(c, id, code)

NextQ == NextQOf({Owner}, MaxQConn)

\* two caller threads on one connection
NextQPar == NextQOf(Threads, 1)

----------------------------------------------------------------------------
(***************************************************************************)
(* tools/equity_price.py: EquityPriceDataWrapper, which sends the          *)
(* historical requests of a list one after the other.                      *)
(***************************************************************************)

DEFAULT_REQUESTS == <<"trades", "implied_vol", "historical_vol">>

REQUEST_NAME_TO_VALUE(request_name) ==
    CASE request_name = "trades" -> "TRADES"
      [] request_name = "implied_vol" -> "OPTION_IMPLIED_VOLATILITY"
      [] request_name = "historical_vol" -> "HISTORICAL_VOLATILITY"

REQUEST_VALUE_TO_NAME(value) ==
    CHOOSE request_name \in {"trades", "implied_vol", "historical_vol"} :
        REQUEST_NAME_TO_VALUE(request_name) = value

BAR_FIELDS(request_name) ==
    IF request_name = "trades"
    THEN <<"open", "high", "low", "close", "volume", "barCount", "average">>
    ELSE <<"open", "high", "low", "close", "barCount", "average">>

\* getattr(bar, field)
getattr(bar, field) ==
    CASE field = "open" -> bar.open [] field = "high" -> bar.high
      [] field = "low" -> bar.low [] field = "close" -> bar.close
      [] field = "volume" -> bar.volume [] field = "barCount" -> bar.barCount
      [] field = "average" -> bar.average

\* the contracts argument of the constructor: None or empty (replaced by
\* SP100_HOLDINGS, the ContractArgs of tools/stocks.py, which have no
\* attribute exchange) or a list of objects with the attributes ticker and
\* exchange
Tickers == <<"AAPL", "ABBV", "ABT">>

EpContracts == {SubSeq(Tickers, 1, n) : n \in 0 .. MaxContracts}

\* the requests argument: None or empty (DEFAULT_REQUESTS), or a list of names
EpRequestNames == {<<>>, <<"trades">>, <<"implied_vol", "trades">>}

\* self.requests, lines 79-95: one RequestHistorical per contract and request
\* name, contracts outermost, reqId the position in the list
RequestList(contracts, requests) ==
    [i \in 1 .. Len(contracts) * Len(requests) |->
        [reqId |-> i - 1,
         contract |-> contracts[((i - 1) \div Len(requests)) + 1],
         whatToShow |->
            REQUEST_NAME_TO_VALUE(requests[((i - 1) % Len(requests)) + 1])]]

NoEp == [made |-> "no", raised |-> "", app |-> NoObj, requests |-> <<>>,
         current_request_id |-> 0, table |-> NoObj]

NoEpNet == [open |-> FALSE, acked |-> FALSE, sent |-> <<>>, ended |-> <<>>,
            tables |-> <<>>, stored |-> <<>>]

\* before the wrapper is constructed
InitEp == ep = NoEp /\ epnet = NoEpNet

\* requests sent whose historicalDataEnd was not delivered yet
EpOutstanding ==
    {epnet.sent[i].reqId : i \in 1 .. Len(epnet.sent)}
        \ {epnet.ended[i] : i \in 1 .. Len(epnet.ended)}

\* EquityPriceDataWrapper.__init__; datetime is a name of the module only
\* when it runs as the script (the import is under __main__)
ep_init(contracts, requests, bar_size, has_datetime) ==
    /\ ep.made = "no"
    /\ ep' =
        IF bar_size = "" THEN [ep EXCEPT !.made = "raised",
                                         !.raised = "ValueError"]
        ELSE IF contracts = <<>>
        THEN [ep EXCEPT !.made = "raised", !.raised = "AttributeError"]
        ELSE IF ~ has_datetime
        THEN [ep EXCEPT !.made = "raised", !.raised = "NameError"]
        ELSE [ep EXCEPT !.made = "yes",
                        !.requests =
                            RequestList(contracts,
                                        IF requests = <<>>
                                        THEN DEFAULT_REQUESTS ELSE requests),
                        !.current_request_id = 0, !.table = NoObj]
    /\ UNCHANGED <<wvars, qvars, epnet, oc, ocnet>>

\* the script: wrapper.app = app, app.connect(...), app.run()
ep_connect ==
    /\ ep.made = "yes" /\ ep.app = NoObj
    /\ ep' = [ep EXCEPT !.app = 1]
    /\ epnet' = [epnet EXCEPT !.open = TRUE]
    /\ UNCHANGED <<wvars, qvars, oc, ocnet>>

\* send_next_request: the request at current_request_id, a new table with
\* the columns of its kind, the request sent through the app
ep_send_next_request(e, n) ==
    LET request == e.requests[e.current_request_id + 1]
        request_name == REQUEST_VALUE_TO_NAME(request.whatToShow)
    IN  [ep |-> [e EXCEPT !.table = Len(n.tables) + 1],
         net |-> [n EXCEPT
                    !.tables = Append(@, [id |-> e.current_request_id,
                                          columns |-> BAR_FIELDS(request_name),
                                          rows |-> <<>>]),
                    !.sent = Append(@, request)]]

\* connectAck, once for the connection
ep_connectAck ==
    /\ epnet.open /\ ~ epnet.acked
    /\ LET s == ep_send_next_request(ep, [epnet EXCEPT !.acked = TRUE])
       IN  ep' = s.ep /\ epnet' = s.net
    /\ UNCHANGED <<wvars, qvars, oc, ocnet>>

\* historicalData for a request that is outstanding: the row of the bar is
\* written into self.table under the parsed date
ep_historicalData(reqId, bar) ==
    /\ epnet.acked /\ reqId \in EpOutstanding
    /\ LET dt == strptime(bar.date)
           request == ep.requests[reqId + 1]
           request_name == REQUEST_VALUE_TO_NAME(request.whatToShow)
           fields == BAR_FIELDS(request_name)
       IN  epnet' = [epnet EXCEPT
               !.tables[ep.table].rows =
                   loc_set(@, dt,
                           [index |-> dt, rid |-> reqId,
                            data |-> [k \in 1 .. Len(fields) |->
                                         getattr(bar, fields[k])]])]
    /\ UNCHANGED <<wvars, qvars, ep, oc, ocnet>>

\* a historicalDataEnd that leaves current_request_id as it is
EpNextId_same(id) == id

\* historicalDataEnd, line 168: self.current_request_id += 1
EpNextId(id) == id + 1

\* historicalDataEnd for a request that is outstanding: the table is stored
\* under the names of request reqId, the next request is sent unless the
\* list is done
ep_historicalDataEnd(reqId) ==
    /\ epnet.acked /\ reqId \in EpOutstanding
    /\ LET request == ep.requests[reqId + 1]
           request_name == REQUEST_VALUE_TO_NAME(request.whatToShow)
           e == [ep EXCEPT !.current_request_id = EpNextId(@)]
           n == [epnet EXCEPT
                    !.ended = Append(@, reqId),
                    !.stored = Append(@, [collection |-> request_name,
                                          item |-> request.contract,
                                          table |-> ep.table])]
       IN  IF Len(e.requests) = e.current_request_id
           THEN ep' = e /\ epnet' = n
           ELSE LET s == ep_send_next_request(e, n)
                IN  ep' = s.ep /\ epnet' = s.net
    /\ UNCHANGED <<wvars, qvars, oc, ocnet>>

\* error: the message is logged
ep_error(req_id, error_code) ==
    /\ epnet.open
    /\ UNCHANGED vars

NextEp ==
    \/ \E contracts \in EpContracts, requests \in EpRequestNames,
          bar_size \in {"30 mins", ""}, has_datetime \in BOOLEAN :
            ep_init(contracts, requests, bar_size, has_datetime)
    \/ ep_connect
    \/ ep_connectAck
    \/ \E reqId \in 0 .. Len(DEFAULT_REQUESTS) * MaxContracts - 1, bar \in Bars :
            ep_historicalData(reqId, bar)
    \/ \E reqId \in 0 .. Len(DEFAULT_REQUESTS) * MaxContracts - 1 : ep_historicalDataEnd(reqId)
    \/ \E req_id \in EventIds, error_code \in QErrorCodes :
            ep_error(req_id, error_code)

----------------------------------------------------------------------------
(***************************************************************************)
(* tools/option_chain.py: OptionChainWrapper, which asks for the contract, *)
(* its option parameters and the options of the front expiration.          *)
(***************************************************************************)

REQUEST_SEQUENCE == <<"contract_details", "chain", "details", "historical">>

\* REQUEST_SEQUENCE[i] of Python: positions from 0, negative ones from the
\* end, IndexError outside
SequenceAt(i) ==
    IF i >= 0 /\ i < Len(REQUEST_SEQUENCE) THEN REQUEST_SEQUENCE[i + 1]
    ELSE IF i < 0 /\ i >= - Len(REQUEST_SEQUENCE)
    THEN REQUEST_SEQUENCE[Len(REQUEST_SEQUENCE) + i + 1]
    ELSE "IndexError"

\* expiration dates "20240119", "20240216" and "20231215", by character,
\* and the sets of them an option-parameters row carries
Expirations ==
    {<<"2", "0", "2", "4", "0", "1", "1", "9">>,
     <<"2", "0", "2", "4", "0", "2", "1", "6">>,
     <<"2", "0", "2", "3", "1", "2", "1", "5">>}

ExpirationSets == (SUBSET Expirations) \ {{}}

\* min of a set of strings of eight digits
min(dates) ==
    CHOOSE d \in dates : \A e \in dates : Number(d) <= Number(e)

\* SP100_HOLDINGS[0].contract, and the contracts the transport describes
DefaultContract == [localSymbol |-> "AAPL", secType |-> "STK", conId |-> 0]

\* the contract argument of the constructor: None or a Contract
NoContract == [localSymbol |-> "", secType |-> "", conId |-> -1]

OcContracts == {NoContract, [DefaultContract EXCEPT !.localSymbol = "ABBV"]}

OcContractDetails ==
    {[contract |-> [DefaultContract EXCEPT !.conId = k]] : k \in {1, 2}}

NoOc == [made |-> "no", raised |-> "", app |-> NoObj,
         contract |-> DefaultContract, current_request_id |-> -1,
         table |-> NoObj, expirations |-> {}, contract_details |-> NoObj]

\* sent: the requests passed to the app; ended: the identifiers of the End
\* callbacks processed; steps: the calls of send_next_request, each with
\* current_request_id at entry, the request it came to, the expirations at
\* that moment and how it went
NoOcNet == [open |-> FALSE, acked |-> FALSE, sent |-> <<>>, ended |-> <<>>,
            steps |-> <<>>]

InitOc == oc = NoOc /\ ocnet = NoOcNet

OcOutstanding(call) ==
    {ocnet.sent[i].reqId :
        i \in {j \in 1 .. Len(ocnet.sent) : ocnet.sent[j].call = call}}
        \ {ocnet.ended[i] : i \in 1 .. Len(ocnet.ended)}

\* OptionChainWrapper.__init__
oc_init(contract, bar_size) ==
    /\ oc.made = "no"
    /\ oc' =
        IF bar_size = ""
        THEN [oc EXCEPT !.made = "raised", !.raised = "ValueError"]
        ELSE [oc EXCEPT !.made = "yes",
                        !.contract = IF contract = NoContract
                                     THEN DefaultContract ELSE contract,
                        !.current_request_id = -1, !.table = NoObj,
                        !.expirations = {}, !.contract_details = NoObj]
    /\ UNCHANGED <<wvars, qvars, ep, epnet, ocnet>>

\* the script: wrapper.app = app, app.connect(...), app.run()
oc_connect ==
    /\ oc.made = "yes" /\ oc.app = NoObj
    /\ oc' = [oc EXCEPT !.app = 1]
    /\ ocnet' = [ocnet EXCEPT !.open = TRUE]
    /\ UNCHANGED <<wvars, qvars, ep, epnet>>

\* a send_next_request that skips a request
OcNextId_skip(id) == id + 2

\* send_next_request, line 77: self.current_request_id += 1
OcNextId(id) == id + 1

\* send_next_request: the identifier is incremented, then the request of
\* that position is sent; min(self.expirations) raises ValueError on the
\* empty set, and nothing is sent for "historical"
oc_send_next_request(o, n) ==
    LET id == OcNextId(o.current_request_id)
        request == SequenceAt(id)
        step == [entered |-> o.current_request_id, request |-> request,
                 expirations |-> o.expirations, how |-> ""]
        sent(call, what) ==
            [n EXCEPT !.sent = Append(@, [reqId |-> id, call |-> call,
                                          request |-> request,
                                          what |-> what]),
                      !.steps = Append(@, [step EXCEPT !.how = "sent"])]
        failed(exc) ==
            [n EXCEPT !.steps = Append(@, [step EXCEPT !.how = exc])]
    IN  IF request = "IndexError"
        THEN [oc |-> [o EXCEPT !.current_request_id = id],
              net |-> failed("IndexError"), raised |-> TRUE]
        ELSE IF request = "contract_details"
        THEN [oc |-> [o EXCEPT !.current_request_id = id],
              net |-> sent("reqContractDetails", <<o.contract>>),
              raised |-> FALSE]
        ELSE IF request = "chain"
        THEN [oc |-> [o EXCEPT !.current_request_id = id],
              net |-> sent("reqSecDefOptParams",
                           <<o.contract.localSymbol, "", o.contract.secType,
                             o.contract.conId>>),
              raised |-> FALSE]
        ELSE IF request = "details"
        THEN IF o.expirations = {}
             THEN [oc |-> [o EXCEPT !.current_request_id = id],
                   net |-> failed("ValueError"), raised |-> TRUE]
             ELSE [oc |-> [o EXCEPT !.current_request_id = id],
                   net |-> sent("reqContractDetails",
                                <<"OPT", "SMART", "USD",
                                  o.contract.localSymbol,
                                  min(o.expirations)>>),
                   raised |-> FALSE]
        ELSE [oc |-> [o EXCEPT !.current_request_id = id],
              net |-> failed("done"), raised |-> FALSE]

\* a callback that calls send_next_request; an exception that leaves the
\* callback leaves the receive loop (ibapi's) running or ends it, closing
\* the connection
oc_callback_sends(n) ==
    LET s == oc_send_next_request(oc, n)
    IN  /\ oc' = s.oc
        /\ \/ ocnet' = s.net
           \/ s.raised /\ ocnet' = [s.net EXCEPT !.open = FALSE]

\* connectAck, once for the connection
oc_connectAck ==
    /\ ocnet.open /\ ~ ocnet.acked
    /\ oc_callback_sends([ocnet EXCEPT !.acked = TRUE])
    /\ UNCHANGED <<wvars, qvars, ep, epnet>>

\* contractDetails for a request that is outstanding
oc_contractDetails(reqId, contractDetails) ==
    /\ ocnet.open /\ reqId \in OcOutstanding("reqContractDetails")
    /\ oc' = IF SequenceAt(reqId) = "contract_details"
             THEN [oc EXCEPT !.contract_details = contractDetails,
                             !.contract = contractDetails.contract]
             ELSE oc
    /\ UNCHANGED <<wvars, qvars, ep, epnet, ocnet>>

\* contractDetailsEnd for a request that is outstanding
oc_contractDetailsEnd(reqId) ==
    /\ ocnet.open /\ reqId \in OcOutstanding("reqContractDetails")
    /\ oc_callback_sends([ocnet EXCEPT !.ended = Append(@, reqId)])
    /\ UNCHANGED <<wvars, qvars, ep, epnet>>

\* securityDefinitionOptionParameter for a request that is outstanding: the
\* expirations of a row of exchange "SMART" are kept
oc_securityDefinitionOptionParameter(reqId, exchange, expirations) ==
    /\ ocnet.open /\ reqId \in OcOutstanding("reqSecDefOptParams")
    /\ oc' = IF exchange = "SMART"
             THEN [oc EXCEPT !.expirations = expirations] ELSE oc
    /\ UNCHANGED <<wvars, qvars, ep, epnet, ocnet>>

\* securityDefinitionOptionParameterEnd for a request that is outstanding
oc_securityDefinitionOptionParameterEnd(reqId) ==
    /\ ocnet.open /\ reqId \in OcOutstanding("reqSecDefOptParams")
    /\ oc_callback_sends([ocnet EXCEPT !.ended = Append(@, reqId)])
    /\ UNCHANGED <<wvars, qvars, ep, epnet>>

\* error: the message and the kind of the code are logged
oc_error(req_id, error_code) ==
    /\ ocnet.open
    /\ UNCHANGED vars

NextOc ==
    \/ \E contract \in OcContracts, bar_size \in {"30 mins", ""} :
            oc_init(contract, bar_size)
    \/ oc_connect
    \/ oc_connectAck
    \/ \E reqId \in 0 .. Len(REQUEST_SEQUENCE) - 1,
          contractDetails \in OcContractDetails :
            oc_contractDetails(reqId, contractDetails)
    \/ \E reqId \in 0 .. Len(REQUEST_SEQUENCE) - 1 :
            oc_contractDetailsEnd(reqId)
    \/ \E reqId \in 0 .. Len(REQUEST_SEQUENCE) - 1, exchange \in Exchanges,
          expirations \in ExpirationSets :
            oc_securityDefinitionOptionParameter(reqId, exchange, expirations)
    \/ \E reqId \in 0 .. Len(REQUEST_SEQUENCE) - 1 :
            oc_securityDefinitionOptionParameterEnd(reqId)
    \/ \E req_id \in EventIds, error_code \in ErrorCodes :
            oc_error(req_id, error_code)

\* the tools before anything is constructed
InitT == InitEp /\ InitOc

----------------------------------------------------------------------------
(* Specifications *)

\* wrapper.RequestWrapper with one caller thread
Init == InitW({Owner}, Timeouts) /\ InitQ({"None"}) /\ InitT

\* wrapper.RequestWrapper with two caller threads
InitPar == InitW(Threads, Timeouts) /\ InitQ({"None"}) /\ InitT

\* request_wrapper.RequestWrapper constructed with a timeout: a get that is
\* given it may give up, and may as well wait until an item arrives, as
\* every get does when timeout is None
InitRw == InitW({}, {"None"}) /\ InitQ({"finite"}) /\ InitT

Next == NextW

Spec == Init /\ [][Next]_vars

\* two caller threads
SpecPar == InitPar /\ [][Next]_vars

SpecQ == InitRw /\ [][NextQ]_vars

\* request_wrapper.RequestWrapper with two caller threads
SpecQPar == InitRw /\ [][NextQPar]_vars

\* wrapper.RequestWrapper serving option-parameters requests
SpecRows == Init /\ [][NextRows]_vars

\* tools.equity_price and tools.option_chain, each with its own connection
SpecEp == InitRw /\ [][NextEp]_vars

SpecOc == InitRw /\ [][NextOc]_vars

\* the caller threads are scheduled: a thread whose wait can return (the
\* event is set, or the finite timeout runs out) returns
FairSpec ==
    /\ Init /\ [][Next]_vars
    /\ \A t \in Threads :
          WF_vars(request_wait_set(t) \/ request_wait_timed_out(t))

----------------------------------------------------------------------------
(* Properties *)

Objects == 1 .. Len(responses)

\* the kinds in a log, and the rows among them
Kinds(log) == {log[i] : i \in 1 .. Len(log)}
RowEvents(log) == Cardinality({i \in 1 .. Len(log) : log[i] = "row"})

\* k row events, then a fatal error, and nothing else
RowsThenError(log) ==
    /\ Len(log) >= 1
    /\ log[Len(log)] = "error"
    /\ \A i \in 1 .. Len(log) - 1 : log[i] = "row"

\* C1: every row of a Response's table came with the identifier the Response
\* is registered under: a row event for A is appended to the Response under
\* A and is in no table registered under another identifier B.
C1_RowsOnlyUnderOwnId ==
    /\ \A id \in DOMAIN pending_responses :
          \A i \in 1 .. Len(responses[pending_responses[id]].table) :
             responses[pending_responses[id]].table[i].rid = id
    /\ \A o \in Objects :
          \A i \in 1 .. Len(responses[o].table) :
             responses[o].table[i].rid = responses[o].key

\* two requests of two threads are outstanding under different identifiers
\* and each has received a row
C1_Witness ==
    \E a, b \in DOMAIN pending_responses :
        /\ a # b
        /\ pc["t1"] = "wait" /\ pc["t2"] = "wait"
        /\ {loc["t1"].obj, loc["t2"].obj} =
                {pending_responses[a], pending_responses[b]}
        /\ Len(responses[pending_responses[a]].table) = 1
        /\ Len(responses[pending_responses[b]].table) = 1

\* C2: when the callbacks a Response handled are k row events followed by a
\* fatal error and nothing else, its completion signal is set (the caller is
\* released), its table holds those k rows, and the request method that
\* returns gives a table of those k rows and raises nothing.
C2_ErrorReturnsRowsSoFar ==
    \A o \in Objects :
        RowsThenError(responses[o].log) =>
            /\ responses[o].finished
            /\ Len(responses[o].table) = RowEvents(responses[o].log)
            /\ \A t \in Threads :
                  (result[t].obj = o /\ result[t].by = "set") =>
                     /\ result[t].status = "returned"
                     /\ Len(result[t].rows) = RowEvents(responses[o].log)

\* C3: with timeout None and one caller thread, once the end callback of its
\* request has been delivered to the Response a waiting thread waits on, the
\* request method returns.
C3_EndReleasesCaller ==
    \A t \in Threads :
        (/\ timeout = "None"
         /\ pc[t] = "wait"
         /\ "end" \in Kinds(responses[loc[t].obj].log))
        ~> (pc[t] = "idle" /\ result[t].status = "returned")

\* a request method returned, with timeout None, after the end callback
C3_Witness ==
    \E t \in Threads :
        /\ timeout = "None"
        /\ result[t].call = "request" /\ result[t].status = "returned"
        /\ Kinds(responses[result[t].obj].log) = {"end"}

\* C4: with a finite timeout a waiting request method returns also when no
\* end and no fatal error arrives, and a method that returns because the
\* wait gave up returns the table with the rows it holds then (none when no
\* row arrived).
C4_TimeoutReturnsRowsSoFar ==
    /\ \A t \in Threads :
          (timeout = "finite" /\ pc[t] = "wait")
          ~> (pc[t] = "idle" /\ result[t].status = "returned")
    /\ [][\A t \in Threads :
            (pc[t] = "wait" /\ pc'[t] = "idle"
                /\ ~ responses[loc[t].obj].finished) =>
               /\ result'[t].status = "returned"
               /\ result'[t].by = "timeout"
               /\ result'[t].rows = responses[loc[t].obj].table
               /\ (responses[loc[t].obj].log = <<>> =>
                      result'[t].rows = <<>>)]_vars

\* a request method returned on the timeout with no terminal event, once
\* with a row in the table
C4_Witness ==
    \E t \in Threads :
        /\ result[t].status = "returned" /\ result[t].by = "timeout"
        /\ result[t].call = "request"
        /\ Len(result[t].rows) = 1
        /\ ~ responses[result[t].obj].finished

\* C5: in request_wrapper.RequestWrapper with a finite timeout, a caller
\* blocked in any response_queue.get (start_app's, a request method's, the
\* one in _request_historical) whose queue holds no item can be released by
\* the timeout: the get it is in gives up when the timeout runs out.
C5_EveryWaitHonoursTimeout ==
    \A t \in Threads :
        (/\ rw.timeout = "finite"
         /\ qpc[t] = "get"
         /\ queues[qloc[t].queue] = <<>>) => ENABLED rw_get_timed_out(t)

\* C11: a request method called with a right other than "C" and "P" (the
\* option-history methods) or with a bar_size that is not in
\* REQUEST_OPTIONS_BAR_SIZE (the history methods) raises to its caller, does
\* not reach the wait, and has not called the transport for this request.
C11_InvalidArgumentsRaiseUnsent ==
    /\ [](\A o \in Objects :
            (\/ responses[o].right \notin {"", "C", "P"}
             \/ responses[o].bar_size \notin {""} \cup REQUEST_OPTIONS_BAR_SIZE)
            => /\ ~ responses[o].sent
               /\ \A t \in Threads : pc[t] = "wait" => loc[t].obj # o)
    /\ [][\A t \in Threads :
            (/\ pc[t] = "send" /\ pc'[t] # "send"
             /\ \/ responses'[loc[t].obj].right \notin {"", "C", "P"}
                \/ responses'[loc[t].obj].bar_size \notin
                        {""} \cup REQUEST_OPTIONS_BAR_SIZE)
            => /\ pc'[t] = "idle"
               /\ result'[t].call = "request"
               /\ result'[t].status = "raised"
               /\ result'[t].obj = loc[t].obj]_vars

\* an option-history request was called with right "X" and a valid bar size
\* and raised, and one called with right "C" and bar size "7 mins" raised
C11_Witness ==
    \E o1, o2 \in Objects :
        /\ responses[o1].right = "X" /\ responses[o1].bar_size = "30 mins"
        /\ responses[o2].right = "C" /\ responses[o2].bar_size = "7 mins"
        /\ ~ responses[o1].sent /\ ~ responses[o2].sent
        /\ result[Owner].status = "raised" /\ result[Owner].obj = o2

\* C6: a start_app whose wait for connectAck ran into the timeout reports an
\* error to its caller instead of returning normally.
C6_StartAppReportsTimeout ==
    \A t \in Threads :
        (result[t].call = "start_app" /\ result[t].by = "timeout") =>
            result[t].status = "raised"

\* C7: with timeout None, a start_app that has returned was preceded by the
\* connectAck of the connection it opened (also at a reconnect).
C7_StartAppReturnsAfterAck ==
    \A t \in Threads :
        (/\ timeout = "None"
         /\ result[t].call = "start_app"
         /\ result[t].status = "returned") => app \in acked

\* the second start_app, after a stop_app of the first connection, returned
C7_Witness ==
    /\ timeout = "None"
    /\ result[Owner].call = "start_app" /\ result[Owner].status = "returned"
    /\ app = 2 /\ 1 \in acked /\ 1 \notin open

\* C8: two caller threads that ran _start_request in the same connection got
\* distinct identifiers, and each Response is in pending_responses under
\* its own identifier.
C8_StartRequestAtomic ==
    \A o1, o2 \in Objects :
        (/\ o1 # o2
         /\ responses[o1].key # -1 /\ responses[o2].key # -1
         /\ responses[o1].conn = responses[o2].conn) =>
            /\ responses[o1].key # responses[o2].key
            /\ lookup(pending_responses, responses[o1].key) = o1
            /\ lookup(pending_responses, responses[o2].key) = o2

C10_TableResetOnReconnect ==
    /\ \A id \in DOMAIN pending_responses :
          responses[pending_responses[id]].conn = app
    /\ \A o \in Objects : responses[o].over = NoObj

\* C12: the completion signal of a Response, once set, stays set in every
\* step (it is set at most once and never cleared), and an end callback
\* delivered to a Response whose signal is set leaves its table as it is and
\* changes no caller's position or result (nobody is released again).
C12_FinishedSetOnce ==
    [][\A o \in Objects :
          /\ responses[o].finished => responses'[o].finished
          /\ (/\ responses[o].finished
              /\ responses'[o].log = Append(responses[o].log, "end"))
             => /\ responses'[o].table = responses[o].table
                /\ pc' = pc /\ result' = result]_vars

\* a Response got its end callback twice and its caller was released
C12_Witness ==
    \E o \in Objects :
        /\ responses[o].log = <<"end", "end">>
        /\ responses[o].finished
        /\ result[Owner].obj = o /\ result[Owner].by = "set"

\* C13: a Response that handled only row callbacks and callbacks that are
\* neither its row nor its end callback (and no fatal error) has its
\* completion signal unset, so that its caller is not released by them.
C13_UnrelatedCallbackKeepsWaiting ==
    \A o \in Objects :
        (/\ "other" \in Kinds(responses[o].log)
         /\ Kinds(responses[o].log) \subseteq {"other", "row"})
        => ~ responses[o].finished

\* C14: a callback that is not the row callback of the Response it is
\* delivered to leaves the table of that Response as it was, rows and row
\* count.
C14_OtherKindsKeepTable ==
    [][\A o \in Objects :
          (\E k \in {"end", "error", "other"} :
              responses'[o].log = Append(responses[o].log, k))
          => responses'[o].table = responses[o].table]_vars

\* a table with a row got a callback of another kind and kept its row
C14_Witness ==
    \E o \in Objects :
        /\ responses[o].log = <<"row", "other">>
        /\ Len(responses[o].table) = 1

\* C15: a row callback delivered to a Response that had its terminal event
\* (its end callback or a fatal error) leaves the table as it was.
C15_NoRowAfterTerminal ==
    [][\A o \in Objects :
          (/\ Kinds(responses[o].log) \cap {"end", "error"} # {}
           /\ responses'[o].log = Append(responses[o].log, "row"))
          => responses'[o].table = responses[o].table]_vars

\* C16: the table a request method returned to its caller holds the rows it
\* held at the return: the receive thread appends nothing to it afterwards.
C16_ReturnedTableNotAppended ==
    \A t \in Threads :
        (result[t].call = "request" /\ result[t].status = "returned")
        => responses[result[t].obj].table = result[t].rows

\* C17: in every reachable state, an error callback with a code in
\* 2000..9999 or the code 10167 leaves every Response as it is (table and
\* completion signal), whatever identifier it carries; with any other code
\* and the identifier of a registered Response it sets the completion signal
\* of that Response.
C17_OnlyFatalCodesEndResponse ==
    \A req_id \in EventIds, error_code \in ErrorCodes :
        LET after == error_handled(responses, pending_responses, req_id,
                                   error_code)
        IN  IF (2000 <= error_code /\ error_code < 10000)
                  \/ error_code = 10167
            THEN after = responses
            ELSE req_id \in DOMAIN pending_responses
                    => after[pending_responses[req_id]].finished

\* a caller waits on a registered Response with a row whose signal is unset
\* (every code is tried on it), and another Response was ended by a fatal
\* error
C17_Witness ==
    \E o1, o2 \in Objects :
        /\ pc[Owner] = "wait" /\ loc[Owner].obj = o2
        /\ pending_responses[responses[o2].key] = o2
        /\ ~ responses[o2].finished
        /\ responses[o1].log = <<"row", "error">>
        /\ responses[o1].finished /\ Len(responses[o1].table) = 1

\* C18: in every reachable state, a row, end or error callback with an
\* identifier that is not in pending_responses leaves every Response as it
\* is; and a step that changes no caller (a callback) leaves the key set of
\* pending_responses and next_request_id alone, and ends the receive thread
\* (an exception left the callback) only when a registered Response handled
\* the callback.
C18_UnknownIdChangesNothing ==
    /\ [](\A request_id \in EventIds, cb \in Callbacks \cup {"error"} :
            \A args \in CallbackArgs(cb, Exchanges) :
                request_id \notin DOMAIN pending_responses
                => handled(responses, pending_responses, cb, request_id,
                           args) = responses)
    /\ [][(pc' = pc /\ result' = result)
            => /\ DOMAIN pending_responses' = DOMAIN pending_responses
               /\ next_request_id' = next_request_id
               /\ alive' # alive
                     => \E o \in Objects :
                           responses'[o].log # responses[o].log]_vars

\* a caller waits on the Response registered under 0, which holds a row;
\* the identifiers -1 and 1 are not in the table
C18_Witness ==
    /\ DOMAIN pending_responses = {0}
    /\ pc[Owner] = "wait" /\ loc[Owner].obj = pending_responses[0]
    /\ Len(responses[pending_responses[0]].table) = 1
    /\ alive # {}

\* C19: once stop_app has returned (and until start_app is called again) no
\* receive thread started by the wrapper is running, so that none can
\* dispatch a callback.
C19_NoThreadAfterStop ==
    (result[Owner].call = "stop_app" /\ result[Owner].status = "returned")
    => alive = {}

\* C20: at most one receive thread started by the wrapper is running, and
\* exactly one from the return of a start_app that was acknowledged to the
\* next call of stop_app or start_app.
C20_OneReceiveThread ==
    /\ Cardinality(alive) <= 1
    /\ (/\ result[Owner].call = "start_app"
        /\ result[Owner].status = "returned"
        /\ result[Owner].by = "set") => Cardinality(alive) = 1


\* C22: the rows of a Response's table are in the order in which its row
\* events were delivered. In every reachable state, for every Response
\* whose class accepts rows, the table holds as many rows as row events
\* were delivered to it, at the indices 0 .. k-1, and the i-th row is what
\* parse_data makes of the arguments of the i-th delivered event and came
\* with the identifier of that event.
C22_RowsInDeliveryOrder ==
    \A o \in 1 .. Len(responses) :
        LET r == responses[o]
        IN  ~RowRaises(r.cls)
            => /\ Len(r.table) = Len(r.events)
               /\ \A i \in 1 .. Len(r.table) :
                     /\ r.table[i].index = i - 1
                     /\ r.table[i].data = parse_data(r.cls, r.events[i].args)
                     /\ r.table[i].rid = r.events[i].rid

\* three rows were accepted by one Response, of exchanges that differ
C22_Witness ==
    \E o \in 1 .. Len(responses) :
        /\ Len(responses[o].table) = 3
        /\ responses[o].events[1].args[1] = "SMART"
        /\ responses[o].events[2].args[1] = "NYSE"
        /\ responses[o].events[3].args[1] = "SMART"

\* the value a row holds in a column of its table
Cell(cls, row, column) ==
    row.data[CHOOSE i \in 1 .. Len(columns(cls)) : columns(cls)[i] = column]

\* k row events, then the end callback, and nothing else
RowsThenEnd(log) ==
    /\ Len(log) >= 1
    /\ log[Len(log)] = "end"
    /\ \A i \in 1 .. Len(log) - 1 : log[i] = "row"

\* C24: an option-parameters request that received n rows and then the end
\* callback returns a table of n rows whose exchange column holds the
\* exchange argument of each row; as many rows pass a filter on exchange
\* "SMART" as rows came with that exchange, exactly one for rows of
\* "SMART" and "NYSE".
C24_ExchangeColumnHoldsArgument ==
    \A t \in Threads :
        LET o == result[t].obj
        IN  (/\ result[t].call = "request"
             /\ result[t].status = "returned" /\ result[t].by = "set"
             /\ responses[o].cls = "OptionParamsResponse"
             /\ RowsThenEnd(responses[o].log))
            => LET rows == result[t].rows
                   events == responses[o].events
                   smart == {i \in 1 .. Len(rows) :
                               Cell("OptionParamsResponse", rows[i],
                                    "exchange") = "SMART"}
               IN  /\ Len(rows) = Len(responses[o].log) - 1
                   /\ Len(rows) = Len(events)
                   /\ \A i \in 1 .. Len(rows) :
                         Cell("OptionParamsResponse", rows[i], "exchange")
                            = events[i].args[1]
                   /\ Cardinality(smart) =
                         Cardinality({i \in 1 .. Len(events) :
                                         events[i].args[1] = "SMART"})
                   /\ (Len(events) = 2 /\ events[1].args[1] = "SMART"
                         /\ events[2].args[1] = "NYSE")
                      => Cardinality(smart) = 1

\* rows of "SMART" and "NYSE", then the end callback: the caller has the
\* table of two rows
C24_Witness ==
    \E t \in Threads :
        /\ result[t].call = "request"
        /\ result[t].status = "returned" /\ result[t].by = "set"
        /\ responses[result[t].obj].cls = "OptionParamsResponse"
        /\ responses[result[t].obj].log = <<"row", "row", "end">>
        /\ responses[result[t].obj].events[1].args[1] = "SMART"
        /\ responses[result[t].obj].events[2].args[1] = "NYSE"
        /\ Len(result[t].rows) = 2

\* C25: an entry of pending_responses is removed when the terminal signal
\* of its request (the end callback or a fatal error) is processed: no
\* identifier in the table maps to a Response that has handled one.
C25_EntryRemovedOnTerminal ==
    \A id \in DOMAIN pending_responses :
        Kinds(responses[pending_responses[id]].log) \cap {"end", "error"}
            = {}

\* C30: the Response is in pending_responses under its identifier before
\* the request carrying the identifier is sent. In every step in which a
\* request is sent, the identifier it carries was a key of the table
\* before the step; and in every state the identifier of every request
\* that was sent is a key, so that _handle_callback finds a Response for
\* every callback answering it.
C30_InsertedBeforeSent ==
    /\ [](\A o \in 1 .. Len(responses) :
            responses[o].sent
            => /\ responses[o].key \in DOMAIN pending_responses
               /\ lookup(pending_responses, responses[o].key) # NoObj)
    /\ [][\A o \in 1 .. Len(responses) :
            (~responses[o].sent /\ responses'[o].sent)
            => responses[o].key \in DOMAIN pending_responses]_vars

\* a request was sent and a callback carrying its identifier was handled by
\* a Response
C30_Witness ==
    \E o \in 1 .. Len(responses) :
        /\ responses[o].sent
        /\ responses[pending_responses[responses[o].key]].log # <<>>

\* C21: two requests of request_wrapper.RequestWrapper issued from
\* different caller threads can be in flight at once: while both callers
\* block in the get of their request, the wrapper holds for each of them the
\* identifier and the table of its request, so that the rows of each are
\* collected and its end callback is accepted.
C21_RequestsInFlightIndependent ==
    (\A u \in Threads : qpc[u] = "get" /\ qloc[u].call \in QMethods)
    => \A t \in Threads :
          /\ rw.current_request_id = qloc[t].id
          /\ rw.response_table = qloc[t].table

\* the value a row of a table of the RequestWrapper holds in a column
QCell(table, row, column) ==
    row.data[CHOOSE i \in 1 .. Len(REQUEST_FIELDS(table.request)) :
                REQUEST_FIELDS(table.request)[i] = column]

\* a request_stock_trades_history call that returned after exactly one
\* historicalData bar and then historicalDataEnd, both carrying its
\* identifier, were handled for its table
TradesOneBar(t) ==
    /\ qresult[t].call = "request_stock_trades_history"
    /\ qresult[t].status = "returned"
    /\ qresult[t].item.by = "end" /\ qresult[t].item.rid = qresult[t].id
    /\ tables[qresult[t].table].log = <<"row", "end">>
    /\ tables[qresult[t].table].rows[1].rid = qresult[t].id

\* C23: a historical-trades request that received one historicalData bar
\* for its identifier and then historicalDataEnd returns its table with one
\* row, keyed by the parsed timestamp of the bar, whose columns open, high,
\* low, close, volume, count, average hold the bar's open, high, low,
\* close, volume, barCount and average; the bar dated "20240102 09:30:00"
\* is keyed by 2024-01-02 09:30:00.
C23_OneBarOneRow ==
    \A t \in Threads :
        TradesOneBar(t)
        => LET table == tables[qresult[t].table]
               row == table.rows[1]
               bar == row.args[1]
           IN  /\ qresult[t].item.table = qresult[t].table
               /\ Len(table.rows) = 1
               /\ row.index = strptime(bar.date)
               /\ Len(row.data) = Len(REQUEST_FIELDS(table.request))
               /\ QCell(table, row, "open") = bar.open
               /\ QCell(table, row, "high") = bar.high
               /\ QCell(table, row, "low") = bar.low
               /\ QCell(table, row, "close") = bar.close
               /\ QCell(table, row, "volume") = bar.volume
               /\ QCell(table, row, "count") = bar.barCount
               /\ QCell(table, row, "average") = bar.average
               /\ bar.date[10] = "0"
                  => row.index = [year |-> 2024, month |-> 1, day |-> 2,
                                  hour |-> 9, minute |-> 30, second |-> 0]

\* the bar of 09:30 and the end arrived, the caller has the table
C23_Witness ==
    \E t \in Threads :
        /\ TradesOneBar(t)
        /\ tables[qresult[t].table].rows[1].args[1].date[10] = "0"
        /\ tables[qresult[t].table].rows[1].data[5] = "100"

\* the rows of every table
AllRows == [i \in 1 .. Len(tables) |-> tables[i].rows]

\* C26: an end callback that carries the current identifier and is not the
\* callback expected for the current request is dropped. The step in
\* which _handle_callback_end handles it puts nothing on a queue, changes
\* the rows of no table and releases no caller; and an item is put on a
\* queue only by connectAck, by a fatal error, or by an end callback that
\* is the one expected, so that the caller stays blocked until one of them
\* or its timeout.
C26_MismatchedEndDropped ==
    /\ [][\A c \in 1 .. MaxQConn :
            (/\ qcb[c].kind = "end" /\ qcb'[c] = NoCall
             /\ REQUEST_CALLBACKS(rw.current_request)
                    \notin {qcb[c].callback_name, "KeyError"})
            => /\ queues' = queues
               /\ AllRows' = AllRows
               /\ qpc' = qpc /\ qresult' = qresult]_vars
    /\ [][\A q \in 1 .. Len(queues) :
            Len(queues'[q]) > Len(queues[q])
            => LET item == queues'[q][Len(queues'[q])]
               IN  /\ item.by \in {"connectAck", "error", "end"}
                   /\ item.by = "end"
                      => \E c \in 1 .. MaxQConn :
                            /\ qcb[c].kind = "end" /\ qcb'[c] = NoCall
                            /\ REQUEST_CALLBACKS(rw.current_request)
                                  = qcb[c].callback_name]_vars

\* a caller blocks in the get of a request whose table saw an end callback
\* of another kind, and its queue is empty
C26_Witness ==
    \E t \in Threads :
        /\ qpc[t] = "get" /\ qloc[t].call \in QMethods
        /\ queues[qloc[t].queue] = <<>>
        /\ tables[qloc[t].table].log = <<"dropped">>
        /\ tables[qloc[t].table].rows = <<>>

\* C27: a fatal error completes only the request it belongs to. While a
\* caller blocks in the get of the current request, an error callback whose
\* req_id is not current_request_id (the connection-level -1 among them)
\* puts nothing on the queue the caller blocks on, whatever its code is.
C27_ErrorOfOtherRequestPutsNothing ==
    \A t \in Threads :
        (/\ qpc[t] = "get" /\ qloc[t].call \in QMethods
         /\ qloc[t].queue = rw.response_queue
         /\ qloc[t].id = rw.current_request_id)
        => \A req_id \in QEventIds, error_code \in ErrorCodes :
              req_id # rw.current_request_id
              => error_put(queues, rw, req_id, error_code)[qloc[t].queue]
                    = queues[qloc[t].queue]

\* C28: start_app returns normally only because connectAck put its item on
\* the queue during the INIT phase of this connection attempt: the item
\* its get returned was put by the connectAck of the connection this call
\* of start_app made, and not by an error callback or during an earlier
\* request or attempt.
C28_StartAppReturnsOnOwnAck ==
    \A t \in Threads :
        (qresult[t].call = "start_app" /\ qresult[t].status = "returned")
        => /\ qresult[t].item.by = "connectAck"
           /\ qresult[t].item.conn = qresult[t].conn

\* the items on the queues and those the callers took last
Items ==
    UNION {{queues[q][k] : k \in 1 .. Len(queues[q])} :
              q \in 1 .. Len(queues)}
    \cup {qresult[t].item : t \in Threads}

\* C29: callbacks of request N have no effect on request N+1, however the
\* receive thread's _handle_callback and _handle_callback_end interleave
\* with the caller's _start_request: no row that came with identifier N is
\* in the table created for N+1, and no end callback that came with
\* identifier N put the table created for N+1 on a queue (N >= 1, the
\* identifier of a request).
C29_CallbacksOfNLeaveNextAlone ==
    /\ \A i \in 1 .. Len(tables) :
          \A k \in 1 .. Len(tables[i].rows) :
             tables[i].rows[k].rid >= 1
             => tables[i].rows[k].rid + 1 # tables[i].id
    /\ \A item \in Items :
          (item.by = "end" /\ item.table # NoObj /\ item.rid >= 1)
          => item.rid + 1 # tables[item.table].id

\* C31: a request rejected by validation (an invalid right or bar size)
\* leaves the correlation state as it was before the call: the Response of
\* a request that raised was given no identifier and is not a value of
\* pending_responses.
C31_RejectedRequestConsumesNothing ==
    \A t \in Threads :
        (result[t].call = "request" /\ result[t].status = "raised")
        => /\ responses[result[t].obj].key = -1
           /\ \A id \in DOMAIN pending_responses :
                 pending_responses[id] # result[t].obj

\* C32: parse_data gives one value per declared column for the arguments
\* of the row callback, so every row event a Response handled added one
\* well-formed row: its table has as many rows as it handled row events,
\* and each row has as many values as the class has columns.
C32_EveryRowEventAddsARow ==
    \A o \in Objects :
        /\ Len(responses[o].table) = Len(responses[o].events)
        /\ \A i \in 1 .. Len(responses[o].table) :
              Len(responses[o].table[i].data)
                  = Len(columns(responses[o].cls))

\* C33: every accepted row event adds exactly one row. A table holds as
\* many rows as row callbacks passed the identifier and name checks and
\* were written into it; none of them replaced an earlier row.
C33_AcceptedRowEventsAddOneRowEach ==
    \A i \in 1 .. Len(tables) :
        Len(tables[i].rows)
            = Cardinality({k \in 1 .. Len(tables[i].log) :
                              tables[i].log[k] = "row"})

C35_RequestsInSequence ==
    /\ [](/\ Len(ocnet.sent) <= 3
          /\ \A k \in 1 .. Len(ocnet.sent) :
                /\ ocnet.sent[k].reqId = k - 1
                /\ ocnet.sent[k].request = REQUEST_SEQUENCE[k]
          /\ Len(ocnet.sent) >= 1 => ocnet.acked
          /\ \A k \in 1 .. Len(ocnet.ended) : ocnet.ended[k] = k - 1
          /\ Len(ocnet.sent) <= Len(ocnet.ended) + 1
          /\ \A k \in 1 .. Len(ocnet.steps) :
                /\ ocnet.steps[k].entered + 1 <= Len(REQUEST_SEQUENCE) - 1
                /\ ocnet.steps[k].how # "IndexError")
    /\ [][Len(ocnet.ended) = 3 => ocnet'.sent = ocnet.sent]_vars

\* the three requests were sent and ended, and the call of
\* send_next_request after the last End came to "historical"
C35_Witness ==
    /\ Len(ocnet.sent) = 3 /\ Len(ocnet.ended) = 3
    /\ Len(ocnet.steps) = 4
    /\ ocnet.steps[4].request = "historical"
    /\ ocnet.steps[4].how = "done"
    /\ oc.current_request_id = 3

\* C36: whenever send_next_request reaches the details step, the
\* expirations set is not empty, whatever option-parameter rows came
\* before the end event.
C36_ExpirationsKnownAtDetails ==
    \A k \in 1 .. Len(ocnet.steps) :
        ocnet.steps[k].request = "details"
        => /\ ocnet.steps[k].expirations # {}
           /\ ocnet.steps[k].how = "sent"
====
